---- MODULE Spec2Model ----
(***************************************************************************)
(* Sage: credential broker / secure proxy gateway.                         *)
(*                                                                         *)
(* State: the four stores (stored keys, access grants, usage counters,     *)
(* audit log), the clock, and the position and locals of every in-flight   *)
(* SageMCP.proxy_call invocation.  Each store statement group (one sqlite  *)
(* connection block) is one atomic step; proxy_call is cut at the places   *)
(* where it moves from one store to another and at the outbound call.      *)
(* Store operations return normally, except the two whose failure the      *)
(* orchestrator swallows: the audit write and the grant cascade of          *)
(* revoke_key.  The orchestrator specifications carry each audit row by the *)
(* columns the orchestrator decides, in the order of writing; the columns   *)
(* LoggingService assigns and its log_sequence table are carried by         *)
(* SpecAudit, which runs LoggingService alone; SpecOrder adds the workers    *)
(* that write concurrently and the read ordered by timestamp.  SpecLive is   *)
(* the orchestrator under fair scheduling of the started invocations.  The   *)
(* bounds of a specification are guards in its next-state relation.          *)
(***************************************************************************)
EXTENDS Integers, Sequences, FiniteSets, TLC

\* ---- bounds of the model ------------------------------------------------
MaxKeys == 1        \* key ids handed out by add_key
MaxGrants == 2      \* grant ids handed out by create_grant
MaxCalls == 3       \* calls counted in usage_counters
MaxLog == 2         \* audit entries written
MaxTime == 2        \* clock ticks
MaxLimit == 2       \* largest max_calls_per_day offered to grant_access
TicksPerDay == 2    \* clock ticks in one calendar day

Procs == {1, 2}                       \* concurrent proxy_call invocations
Agents == {"coral_a", "coral_b"}      \* valid Coral sessions (owner or caller)
Sessions == Agents \cup {"bad"}       \* "bad" does not start with "coral_"
OwnerSessions == {"coral_a", "bad"}   \* sessions that store keys
Grantees == {"coral_b"}               \* callers that are offered grants
Names == {"k1"}                       \* key names
EmptyId == 0                          \* the empty string as key_id
KeyIds == 1..MaxKeys
Urls == {"", "no-scheme", "https://host/path"}
StatusCodes == {200, 503}             \* provider status codes
PayloadSizes == {2}                   \* byte length of the serialized body
ResponseTimes == {3}                  \* measured latency (ms)
Limits == 0..MaxLimit                 \* max_calls_per_day inputs (0 is invalid)
Expiries == 0..1                      \* expiry in ticks from now (0 is invalid)

\* api keys offered to add_key: the text, its length, and whether it is blank or
\* holds a control character
SkLive1 == [text |-> "sk-live-1", len |-> 9, blank |-> FALSE, control |-> FALSE]
SkShort == [text |-> "sk-7", len |-> 7, blank |-> FALSE, control |-> FALSE]
ApiKeys == {SkLive1, SkShort}
NoSecret == [text |-> "", len |-> 0, blank |-> TRUE, control |-> FALSE]
MasterKey == "master"                 \* the key of the EncryptionManager
Opaque == [text |-> "response", len |-> 8, blank |-> FALSE, control |-> FALSE]

\* values offered as permissions['max_calls_per_day']: an int, a bool (an int to
\* isinstance: True is 1, False is 0), a value of another type (str, float,
\* None), or no such key / permissions not a dict
Perms == [kind : {"int"}, val : Limits \cup {-1}]
         \cup [kind : {"bool"}, val : {0, 1}]
         \cup [kind : {"other", "missing"}, val : {0}]

VARIABLES
    stored_keys,      \* rows of table stored_keys
    access_grants,    \* rows of table access_grants
    usage_counters,   \* rows of table usage_counters
    audit_logs,       \* rows of table audit_logs, in log_sequence order
    now,              \* datetime.utcnow()
    next_key_id,      \* next fresh key id (uuid4)
    next_grant_id,    \* next fresh grant id (uuid4)
    inv,              \* per invocation: position and locals of proxy_call
    ret,              \* what the operation that just finished handed to its caller
    log_sequence,     \* rows of table log_sequence
    sqlite_sequence   \* AUTOINCREMENT: the largest log_sequence.id handed out

vars == <<stored_keys, access_grants, usage_counters, audit_logs, now,
          next_key_id, next_grant_id, inv, ret, log_sequence, sqlite_sequence>>

sequence_tables == <<log_sequence, sqlite_sequence>>

Today == now \div TicksPerDay

\* locals of one proxy_call invocation; grant_at_check records whether an
\* active, non-expired grant for the pair existed when check_authorization ran
\* name and secret are the key name and the api key a store, rotate or
\* proxy_call invocation holds in its locals
Idle == [pc |-> "idle", key_id |-> EmptyId, caller_id |-> "", url |-> "",
         grant_at_check |-> FALSE, grant_id |-> 0, max_calls |-> 0, used |-> 0,
         day |-> 0, name |-> "", secret |-> NoSecret,
         row |-> {}, payload_size |-> 0, response_time |-> 0]

\* what a finished operation hands back: its name, the result or error, the id
\* it returned, whether its audit write raised, for proxy_call the pair it
\* was called for and the provider status, the data it returned (the response
\* data of proxy_call, the api key of _retrieve_key_for_proxy) and the entries
\* list_logs returned
NoRet == [op |-> "", result |-> "", id |-> 0, log_err |-> FALSE,
          key_id |-> EmptyId, caller_id |-> "", status |-> 0, data |-> NoSecret,
          logs |-> << >>]

OwnerRet(op, result, id, log_err) ==
    [NoRet EXCEPT !.op = op, !.result = result, !.id = id, !.log_err = log_err]

\* the same for an operation on a named key: key_id and the requesting session
OwnerRetFor(op, result, id, log_err, key_id, session) ==
    [OwnerRet(op, result, id, log_err) EXCEPT !.key_id = key_id,
                                              !.caller_id = session]

ProxyRet(rec, result, status, log_ok) ==
    [NoRet EXCEPT !.op = "proxy_call", !.result = result, !.log_err = ~log_ok,
                  !.key_id = rec.key_id, !.caller_id = rec.caller_id,
                  !.status = status]

\* ---- mcp_interface -------------------------------------------------------
\* a session of an agent that owns no key and holds no grant
Outsider == "coral_c"

\* non-empty and startswith("coral_")
validate_coral_session(session_id) == session_id \in Agents \cup {Outsider}

\* ---- models/access_grant.py ---------------------------------------------
\* mutant: the expiry of the grant is not looked at
is_expired_never(grant, t) == FALSE

\* mutant: a grant is already expired at exactly its expires_at
is_expired_inclusive(grant, t) == t >= grant.expires_at

is_expired(grant, t) == t > grant.expires_at

\* ---- authorization_engine.py --------------------------------------------
\* SELECT * FROM access_grants WHERE key_id = ? AND caller_id = ? AND is_active = 1
SelectActiveGrant(grants, key_id, caller_id) ==
    {g \in grants : g.key_id = key_id /\ g.caller_id = caller_id /\ g.is_active}

\* mutant: the deactivation is not written
deactivate_grant_noop(grants, grant_id) == grants

\* UPDATE access_grants SET is_active = 0 WHERE grant_id = ?
deactivate_grant(grants, grant_id) ==
    {IF g.grant_id = grant_id THEN [g EXCEPT !.is_active = FALSE] ELSE g : g \in grants}

\* mutant: a plain INSERT, the row of the pair is kept
InsertKeepOld(grants, new) == grants \cup {new}

\* mutant: an upsert that updates the row of the pair in place, keeping its id
UpsertKeepId(grants, new) ==
    IF \E g \in grants : g.key_id = new.key_id /\ g.caller_id = new.caller_id
    THEN {IF g.key_id = new.key_id /\ g.caller_id = new.caller_id
          THEN [new EXCEPT !.grant_id = g.grant_id] ELSE g : g \in grants}
    ELSE grants \cup {new}

\* INSERT OR REPLACE under PRIMARY KEY (grant_id) and UNIQUE (key_id, caller_id):
\* every row that conflicts with the new one is deleted, then the row is inserted.
InsertOrReplaceGrant(grants, new) ==
    {g \in grants : g.grant_id # new.grant_id
                    /\ ~(g.key_id = new.key_id /\ g.caller_id = new.caller_id)}
    \cup {new}

\* AccessGrant.create_new: a fresh uuid4, active
create_new_grant(grant_id, key_id, caller_id, max_calls, expires_at, granted_by) ==
    [grant_id |-> grant_id, key_id |-> key_id, caller_id |-> caller_id,
     max_calls |-> max_calls, expires_at |-> expires_at, is_active |-> TRUE,
     granted_by |-> granted_by]

\* UPDATE ... SET is_active = 0 WHERE key_id = ? AND granted_by = ? AND is_active = 1
revoke_grants_for_key(grants, key_id, owner_id) ==
    {IF g.key_id = key_id /\ g.granted_by = owner_id /\ g.is_active
     THEN [g EXCEPT !.is_active = FALSE] ELSE g : g \in grants}

\* revoke_grants_for_key as SageMCP.revoke_key sees it: when the UPDATE raises,
\* the exception is swallowed (`except Exception: return 0`) and no row changes
revoke_cascade(grants, key_id, owner_id, store_ok) ==
    IF store_ok THEN revoke_grants_for_key(grants, key_id, owner_id) ELSE grants

\* mutant: a grant that expires at this very moment is swept as well
cleanup_expired_inclusive(grants, t) ==
    {IF g.is_active /\ g.expires_at <= t
     THEN [g EXCEPT !.is_active = FALSE] ELSE g : g \in grants}

\* UPDATE ... SET is_active = 0 WHERE is_active = 1 AND expires_at < now
cleanup_expired_grants(grants, t) ==
    {IF g.is_active /\ g.expires_at < t
     THEN [g EXCEPT !.is_active = FALSE] ELSE g : g \in grants}

\* ---- policy_engine.py ----------------------------------------------------
\* mutant: the date is missing from the WHERE clause
CounterRowsAnyDate(counters, key_id, caller_id, date) ==
    {r \in counters : r.key_id = key_id /\ r.caller_id = caller_id}

CounterRows(counters, key_id, caller_id, date) ==
    {r \in counters : r.key_id = key_id /\ r.caller_id = caller_id /\ r.date = date}

get_current_usage(counters, key_id, caller_id, date) ==
    LET rows == CounterRows(counters, key_id, caller_id, date)
    IN  IF rows = {} THEN 0 ELSE (CHOOSE r \in rows : TRUE).call_count

\* mutant: a caller at exactly the limit is still admitted
within_limit_inclusive(current_usage, max_calls) ==
    IF max_calls <= 0 THEN FALSE ELSE current_usage <= max_calls

within_limit(current_usage, max_calls) ==
    IF max_calls <= 0 THEN FALSE ELSE current_usage < max_calls

\* mutant: the counter is not looked at
check_rate_limit_skipped(counters, key_id, caller_id, date, max_calls) == TRUE

check_rate_limit(counters, key_id, caller_id, date, max_calls) ==
    within_limit(get_current_usage(counters, key_id, caller_id, date), max_calls)

\* UsageCounter.increment_usage on the row of today (created when absent).
\* average_response_time is the exact mean response_time_total / call_count.
increment_usage(counters, key_id, caller_id, date, payload_size, response_time) ==
    LET rows == CounterRows(counters, key_id, caller_id, date)
        old  == IF rows = {}
                THEN [key_id |-> key_id, caller_id |-> caller_id, date |-> date,
                      call_count |-> 0, total_payload_size |-> 0,
                      response_time_total |-> 0]
                ELSE CHOOSE r \in rows : TRUE
        new  == [old EXCEPT !.call_count = @ + 1,
                            !.total_payload_size = @ + payload_size,
                            !.response_time_total = @ + response_time]
    IN  (counters \ rows) \cup {new}

\* ---- utils/encryption.py -------------------------------------------------
\* Fernet, symbolically: a token opens only under the key that made it
encrypt(master_key, plaintext) == [cipher_key |-> master_key, plain |-> plaintext]

decrypt(master_key, token) ==
    IF token.cipher_key = master_key THEN token.plain ELSE NoSecret

\* non-empty after strip, 8..512 characters, no control character
validate_api_key(api_key) ==
    /\ ~api_key.blank
    /\ api_key.len >= 8
    /\ api_key.len <= 512
    /\ ~api_key.control

\* ---- key_storage.py / key_manager.py ------------------------------------
get_key(keys, key_id) == {k \in keys : k.key_id = key_id}

\* mutant: the key only has to exist, whoever owns it
key_exists(keys, key_id, owner_id) == \E k \in keys : k.key_id = key_id

verify_key_ownership(keys, key_id, owner_id) ==
    \E k \in keys : k.key_id = key_id /\ k.owner_id = owner_id

deactivate_key(keys, key_id) ==
    {IF k.key_id = key_id THEN [k EXCEPT !.is_active = FALSE] ELSE k : k \in keys}

\* mutant: retrieve_key_for_proxy without its is_active test
retrievable_inactive(keys, key_id) == \E k \in keys : k.key_id = key_id

\* _retrieve_key_for_proxy succeeds iff the key exists and is active
retrievable(keys, key_id) == \E k \in keys : k.key_id = key_id /\ k.is_active

\* the api key _retrieve_key_for_proxy returns for a retrievable key
retrieve_key_for_proxy(keys, key_id) ==
    decrypt(MasterKey, (CHOOSE k \in keys : k.key_id = key_id).encrypted_key)

\* mutant: the table without its UNIQUE (owner_id, key_name) constraint
insertable_by_id(keys, row) == \A k \in keys : k.key_id # row.key_id

\* INSERT under PRIMARY KEY (key_id) and UNIQUE (owner_id, key_name): the
\* insert fails when any row, active or not, has the same owner and name
insertable(keys, row) ==
    \A k \in keys : /\ k.key_id # row.key_id
                    /\ ~(k.owner_id = row.owner_id /\ k.key_name = row.key_name)

\* StoredKey.create_new with the encrypted api key
create_new_key(key_id, owner_id, key_name, api_key) ==
    [key_id |-> key_id, owner_id |-> owner_id, key_name |-> key_name,
     is_active |-> TRUE, encrypted_key |-> encrypt(MasterKey, api_key)]

\* get_keys_by_owner(active_only = True) holds a key of that name
name_taken(keys, owner_id, key_name) ==
    \E k \in keys : k.owner_id = owner_id /\ k.is_active /\ k.key_name = key_name

\* ---- proxy_service.py ----------------------------------------------------
\* urlparse(target_url) has a scheme and a netloc
valid_url(target_url) == target_url = "https://host/path"

\* ---- logging_service.py --------------------------------------------------
\* the fields of an audit row that the orchestrator decides
log_entry(caller_id, key_id, action, response_code, error) ==
    [caller_id |-> caller_id, key_id |-> key_id, action |-> action,
     response_code |-> response_code, error |-> error]

\* _create_log_entry: append the row, unless the audit store raises
create_log_entry(logs, entry, store_ok) ==
    IF store_ok THEN Append(logs, entry) ELSE logs

\* ---- bounding guards -----------------------------------------------------
InFlight == {p \in Procs : inv[p].pc # "idle"}
LogRoom == Len(audit_logs) + Cardinality(InFlight) < MaxLog

RECURSIVE SumCalls(_)
SumCalls(rows) ==
    IF rows = {} THEN 0
    ELSE LET r == CHOOSE x \in rows : TRUE IN r.call_count + SumCalls(rows \ {r})

CallRoom == SumCalls(usage_counters) + Cardinality(InFlight) < MaxCalls


\* ---- models/access_grant.py: is_valid ------------------------------------
\* active and not expired at time t
is_valid(grant, t) == grant.is_active /\ grant.expires_at >= t

HasValidGrant(grants, key_id, caller_id, t) ==
    \E g \in grants : g.key_id = key_id /\ g.caller_id = caller_id /\ is_valid(g, t)

\* ---- sage_mcp.py: how a logging failure reaches the caller ---------------
\* mutant: the failure of the audit write replaces the outcome
best_effort_strict(outcome, log_ok) == IF log_ok THEN outcome ELSE "audit_failed"

\* try: log(...) except Exception: pass / warning -- the outcome stands
best_effort(outcome, log_ok) == outcome

\* the step-8 log_proxy_call is awaited outside any try of its own: its
\* RuntimeError leaves proxy_call through `except RuntimeError: raise`
unguarded(outcome, log_ok) == IF log_ok THEN outcome ELSE "audit_failed"

Init ==
    /\ stored_keys = {}
    /\ access_grants = {}
    /\ usage_counters = {}
    /\ audit_logs = << >>
    /\ now = 0
    /\ next_key_id = 1
    /\ next_grant_id = 1
    /\ inv = [p \in Procs |-> Idle]
    /\ ret = NoRet
    /\ log_sequence = {}
    /\ sqlite_sequence = 0

\* ---- SageMCP.add_key -----------------------------------------------------
\* KeyManager.store_key raises ValueError on an invalid api key or a name an
\* active key of the owner has, and RuntimeError when the INSERT fails
AddKey(key_name, api_key, owner_session) ==
    /\ UNCHANGED sequence_tables
    /\ UNCHANGED <<access_grants, usage_counters, now, next_grant_id, inv>>
    /\ LET row == create_new_key(next_key_id, owner_session, key_name, api_key)
       IN  IF ~validate_coral_session(owner_session)
              \/ ~validate_api_key(api_key)
              \/ name_taken(stored_keys, owner_session, key_name)
           THEN /\ ret' = OwnerRet("add_key", "ValueError", 0, FALSE)
                /\ UNCHANGED <<stored_keys, audit_logs, next_key_id>>
           ELSE IF ~insertable(stored_keys, row)
           THEN /\ ret' = OwnerRet("add_key", "RuntimeError", 0, FALSE)
                /\ UNCHANGED <<stored_keys, audit_logs, next_key_id>>
           ELSE /\ next_key_id <= MaxKeys
                /\ \E log_ok \in BOOLEAN :
                    /\ stored_keys' = stored_keys \cup {row}
                    /\ next_key_id' = next_key_id + 1
                    /\ audit_logs' = create_log_entry(audit_logs,
                          log_entry(owner_session, next_key_id, "proxy_call", 200,
                                    FALSE), log_ok)
                    /\ ret' = OwnerRet("add_key", best_effort("ok", log_ok),
                                       next_key_id, ~log_ok)

\* the inputs offered to grant_access, empty ids included; a call carries at
\* most one argument that is invalid whatever the state of the stores
GrantKeys == KeyIds \cup {EmptyId}
GrantCallers == Grantees \cup {""}
GrantSessions == Sessions \cup {""}

Flaws(i) ==
    {f \in {"key_id", "caller_id", "perm", "expiry", "session"} :
        \/ f = "key_id" /\ i.key_id = EmptyId
        \/ f = "caller_id" /\ i.caller_id = ""
        \/ f = "perm" /\ ~(i.perm.kind \in {"int", "bool"} /\ i.perm.val > 0)
        \/ f = "expiry" /\ i.expiry <= 0
        \/ f = "session" /\ i.session \notin Agents}

GrantInputs ==
    {i \in [key_id : GrantKeys, caller_id : GrantCallers, perm : Perms,
            expiry : Expiries, session : GrantSessions] :
        Cardinality(Flaws(i)) <= 1}

\* ---- SageMCP.grant_access (with AuthorizationEngine.create_grant) --------
\* mutant: any int is accepted as max_calls_per_day
valid_max_calls_any_int(perm) == perm.kind \in {"int", "bool"}

\* 'max_calls_per_day' in permissions, isinstance(value, int) and value > 0
valid_max_calls(perm) == perm.kind \in {"int", "bool"} /\ perm.val > 0

\* mutant: create_grant starts the pair's usage anew
GrantAccessResetting(key_id, caller_id, perm, expiry, owner_session) ==
    /\ UNCHANGED sequence_tables
    /\ UNCHANGED <<stored_keys, now, next_key_id, inv>>
    /\ IF ~validate_coral_session(owner_session)
          \/ ~verify_key_ownership(stored_keys, key_id, owner_session)
          \/ ~(perm.kind \in {"int", "bool"} /\ perm.val > 0)
          \/ caller_id = ""
          \/ now + expiry <= now
       THEN /\ ret' = OwnerRetFor("grant_access", "ValueError", 0, FALSE, key_id,
                                  owner_session)
            /\ UNCHANGED <<access_grants, usage_counters, audit_logs,
                           next_grant_id>>
       ELSE /\ next_grant_id <= MaxGrants
            /\ usage_counters' =
                 {r \in usage_counters :
                     ~(r.key_id = key_id /\ r.caller_id = caller_id)}
            /\ \E log_ok \in BOOLEAN :
                /\ access_grants' = InsertOrReplaceGrant(access_grants,
                      create_new_grant(next_grant_id, key_id, caller_id, perm.val,
                                       now + expiry, owner_session))
                /\ next_grant_id' = next_grant_id + 1
                /\ audit_logs' = create_log_entry(audit_logs,
                      log_entry(owner_session, key_id, "grant_access", 200, FALSE),
                      log_ok)
                /\ ret' = OwnerRetFor("grant_access", best_effort("ok", log_ok),
                                      next_grant_id, ~log_ok, key_id, owner_session)

\* ret.id is the grant id create_grant returned
GrantAccess(key_id, caller_id, perm, expiry, owner_session) ==
    /\ UNCHANGED sequence_tables
    /\ UNCHANGED <<stored_keys, usage_counters, now, next_key_id, inv>>
    /\ IF ~validate_coral_session(owner_session)
          \/ ~verify_key_ownership(stored_keys, key_id, owner_session)
          \/ ~valid_max_calls(perm)
          \/ caller_id = ""
          \/ now + expiry <= now
       THEN /\ ret' = OwnerRetFor("grant_access", "ValueError", 0, FALSE, key_id,
                                  owner_session)
            /\ UNCHANGED <<access_grants, audit_logs, next_grant_id>>
       ELSE /\ next_grant_id <= MaxGrants
            /\ \E log_ok \in BOOLEAN :
                /\ access_grants' = InsertOrReplaceGrant(access_grants,
                      create_new_grant(next_grant_id, key_id, caller_id, perm.val,
                                       now + expiry, owner_session))
                /\ next_grant_id' = next_grant_id + 1
                /\ audit_logs' = create_log_entry(audit_logs,
                      log_entry(owner_session, key_id, "grant_access", 200, FALSE),
                      log_ok)
                /\ ret' = OwnerRetFor("grant_access", best_effort("ok", log_ok),
                                      next_grant_id, ~log_ok, key_id, owner_session)

\* ---- SageMCP.revoke_key (KeyManager.revoke_key, then the grant cascade) --
RevokeKey(key_id, owner_session) ==
    /\ UNCHANGED sequence_tables
    /\ UNCHANGED <<usage_counters, now, next_key_id, next_grant_id, inv>>
    /\ IF ~validate_coral_session(owner_session)
          \/ ~verify_key_ownership(stored_keys, key_id, owner_session)
       THEN /\ ret' = OwnerRet("revoke_key", "False", 0, FALSE)
            /\ UNCHANGED <<stored_keys, access_grants, audit_logs>>
       ELSE \E log_ok \in BOOLEAN, cascade_ok \in BOOLEAN :
            /\ stored_keys' = deactivate_key(stored_keys, key_id)
            /\ access_grants' = revoke_cascade(access_grants, key_id, owner_session,
                                               cascade_ok)
            /\ audit_logs' = create_log_entry(audit_logs,
                  log_entry(owner_session, key_id, "proxy_call", 200, FALSE), log_ok)
            /\ ret' = OwnerRet("revoke_key", "True", key_id, ~log_ok)

\* ---- AuthorizationEngine.revoke_grant ------------------------------------
\* the SELECT of revoke_grant without the comparison of granted_by
revocable_by_anyone(grants, grant_id, owner_id) ==
    \E g \in grants : g.grant_id = grant_id /\ g.is_active

\* SELECT granted_by ... WHERE grant_id = ? AND is_active = 1, then the
\* comparison of the row's granted_by with the requester
revocable(grants, grant_id, owner_id) ==
    \E g \in grants : g.grant_id = grant_id /\ g.is_active
                       /\ g.granted_by = owner_id

RevokeGrant(grant_id, owner_id) ==
    /\ UNCHANGED sequence_tables
    /\ UNCHANGED <<stored_keys, usage_counters, audit_logs, now, next_key_id,
                   next_grant_id, inv>>
    /\ IF revocable(access_grants, grant_id, owner_id)
       THEN /\ access_grants' = deactivate_grant(access_grants, grant_id)
            /\ ret' = OwnerRet("revoke_grant", "True", grant_id, FALSE)
       ELSE /\ ret' = OwnerRet("revoke_grant", "ValueError", 0, FALSE)
            /\ UNCHANGED access_grants

\* ---- SageMCP.cleanup_expired_grants --------------------------------------
\* ret.id is the rowcount of the UPDATE
Sweep ==
    /\ UNCHANGED sequence_tables
    /\ access_grants' = cleanup_expired_grants(access_grants, now)
    /\ access_grants' # access_grants
    /\ ret' = OwnerRet("cleanup_expired_grants", "ok",
                       Cardinality(access_grants' \ access_grants), FALSE)
    /\ UNCHANGED <<stored_keys, usage_counters, audit_logs, now, next_key_id,
                   next_grant_id, inv>>

\* ---- the clock -----------------------------------------------------------
Tick ==
    /\ UNCHANGED sequence_tables
    /\ now' = now + 1
    /\ ret' = NoRet
    /\ UNCHANGED <<stored_keys, access_grants, usage_counters, audit_logs,
                   next_key_id, next_grant_id, inv>>

\* ---- SageMCP.proxy_call --------------------------------------------------
\* the invocation ends: its result or error reaches the caller
Done(p, rec, result, status, log_ok) ==
    /\ inv' = [inv EXCEPT ![p] = Idle]
    /\ ret' = ProxyRet(rec, result, status, log_ok)

\* the invocation ends on a path that attempts no audit write
DoneUnlogged(p, rec, result) == Done(p, rec, result, 0, TRUE)

Goto(p, rec, pc) ==
    /\ inv' = [inv EXCEPT ![p] = [rec EXCEPT !.pc = pc]]
    /\ ret' = NoRet

\* log_authorization_failed (best effort), then raise "Access denied"
DenyAccess(p, rec) ==
    \E log_ok \in BOOLEAN :
        LET e == log_entry(rec.caller_id, rec.key_id, "authorization_failed", 403, TRUE)
        IN  /\ audit_logs' = create_log_entry(audit_logs, e, log_ok)
            /\ Done(p, rec, best_effort("access_denied", log_ok), 0, log_ok)

\* validate the session and the parameters, then check_authorization's SELECT
ProxyStart(p, key_id, target_url, caller_session) ==
    /\ UNCHANGED sequence_tables
    /\ inv[p].pc = "idle"
    /\ \A q \in Procs : q < p => inv[q].pc # "idle"
    /\ CallRoom
    /\ UNCHANGED <<stored_keys, access_grants, usage_counters, now, next_key_id,
                   next_grant_id>>
    /\ LET rec  == [Idle EXCEPT !.key_id = key_id, !.caller_id = caller_session,
                                !.url = target_url,
                                !.grant_at_check = HasValidGrant(access_grants, key_id,
                                                                 caller_session, now)]
           rows == SelectActiveGrant(access_grants, key_id, caller_session)
       IN  IF ~validate_coral_session(caller_session) \/ key_id = EmptyId
              \/ target_url = ""
           THEN /\ DoneUnlogged(p, rec, "ValueError")
                /\ UNCHANGED audit_logs
           ELSE IF rows = {}
           THEN DenyAccess(p, rec)
           ELSE LET grant == CHOOSE g \in rows : TRUE
                IN  /\ UNCHANGED audit_logs
                    /\ IF is_expired(grant, now)
                       THEN Goto(p, [rec EXCEPT !.grant_id = grant.grant_id],
                                 "auth_expired")
                       ELSE Goto(p, rec, "get_grant")

\* check_authorization found the grant expired: _deactivate_grant, return False
AuthDeactivate(p) ==
    /\ UNCHANGED sequence_tables
    /\ inv[p].pc = "auth_expired"
    /\ access_grants' = deactivate_grant(access_grants, inv[p].grant_id)
    /\ DenyAccess(p, inv[p])
    /\ UNCHANGED <<stored_keys, usage_counters, now, next_key_id, next_grant_id>>

\* get_grant's SELECT; with a grant in hand: check_rate_limit (on false
\* log_rate_limit_blocked, best effort, and raise), _retrieve_key_for_proxy, and
\* make_proxied_call up to sending the request
GetGrant(p) ==
    /\ UNCHANGED sequence_tables
    /\ inv[p].pc = "get_grant"
    /\ UNCHANGED <<stored_keys, access_grants, usage_counters, now, next_key_id,
                   next_grant_id>>
    /\ LET rows == SelectActiveGrant(access_grants, inv[p].key_id, inv[p].caller_id)
       IN  IF rows = {}
           THEN /\ DoneUnlogged(p, inv[p], "no_grant")
                /\ UNCHANGED audit_logs
           ELSE LET grant == CHOOSE g \in rows : TRUE
                    used  == get_current_usage(usage_counters, inv[p].key_id,
                                               inv[p].caller_id, Today)
                    ok    == check_rate_limit(usage_counters, inv[p].key_id,
                                              inv[p].caller_id, Today, grant.max_calls)
                    rec   == [inv[p] EXCEPT !.max_calls = grant.max_calls,
                                            !.used = used, !.day = Today]
                IN  IF is_expired(grant, now)
                    THEN /\ Goto(p, [inv[p] EXCEPT !.grant_id = grant.grant_id],
                                 "grant_expired")
                         /\ UNCHANGED audit_logs
                    ELSE IF ~ok
                    THEN \E log_ok \in BOOLEAN :
                         LET e == log_entry(rec.caller_id, rec.key_id,
                                            "rate_limit_blocked", 429, TRUE)
                         IN  /\ audit_logs' = create_log_entry(audit_logs, e, log_ok)
                             /\ Done(p, rec, best_effort("rate_limited", log_ok), 0,
                                     log_ok)
                    ELSE /\ UNCHANGED audit_logs
                         /\ IF ~retrievable(stored_keys, rec.key_id)
                            THEN DoneUnlogged(p, rec, "key_error")
                            ELSE IF ~valid_url(rec.url)
                            THEN DoneUnlogged(p, rec, "invalid_url")
                            ELSE Goto(p, [rec EXCEPT !.secret =
                                             retrieve_key_for_proxy(stored_keys,
                                                                    rec.key_id)],
                                      "in_flight")

\* get_grant found the grant expired: _deactivate_grant, return None
GrantDeactivate(p) ==
    /\ UNCHANGED sequence_tables
    /\ inv[p].pc = "grant_expired"
    /\ access_grants' = deactivate_grant(access_grants, inv[p].grant_id)
    /\ DoneUnlogged(p, inv[p], "no_grant")
    /\ UNCHANGED <<stored_keys, usage_counters, audit_logs, now, next_key_id,
                   next_grant_id>>

\* inject_api_key: the api key is put into a header of the request whatever
\* host the caller named in target_url
inject_api_key(api_key, target_url) == api_key

\* the response of the host the caller chose: its headers and body are
\* returned as they came, and a host may answer with the headers it was sent
response_data(request_key, reflects) == IF reflects THEN request_key ELSE Opaque

\* the provider answered: increment_usage, log_proxy_call, return the result
ProxyRespond(p, status, payload_size, response_time, reflects) ==
    /\ UNCHANGED sequence_tables
    /\ inv[p].pc = "in_flight"
    /\ usage_counters' = increment_usage(usage_counters, inv[p].key_id,
                                         inv[p].caller_id, Today, payload_size,
                                         response_time)
    /\ \E log_ok \in BOOLEAN :
        LET e == log_entry(inv[p].caller_id, inv[p].key_id, "proxy_call", status, FALSE)
        IN  /\ audit_logs' = create_log_entry(audit_logs, e, log_ok)
            /\ inv' = [inv EXCEPT ![p] = Idle]
            /\ ret' = [ProxyRet(inv[p], unguarded("ok", log_ok), status, log_ok)
                         EXCEPT !.data =
                            IF log_ok
                            THEN response_data(inject_api_key(inv[p].secret,
                                                              inv[p].url), reflects)
                            ELSE NoSecret]
    /\ UNCHANGED <<stored_keys, access_grants, now, next_key_id, next_grant_id>>

\* mutant: the failed call is counted like a completed one
ProxyFailCounted(p) ==
    /\ UNCHANGED sequence_tables
    /\ inv[p].pc = "in_flight"
    /\ usage_counters' = increment_usage(usage_counters, inv[p].key_id,
                                         inv[p].caller_id, Today, 0, 0)
    /\ \E log_ok \in BOOLEAN :
        LET e == log_entry(inv[p].caller_id, inv[p].key_id, "proxy_call", 500, TRUE)
        IN  /\ audit_logs' = create_log_entry(audit_logs, e, log_ok)
            /\ Done(p, inv[p], best_effort("proxy_failed", log_ok), 0, log_ok)
    /\ UNCHANGED <<stored_keys, access_grants, now, next_key_id, next_grant_id>>

\* mutant: a session without ClientTimeout, the outbound call never gives up
ProxyNeverTimesOut(p) ==
    /\ inv[p].pc = "in_flight"
    /\ FALSE
    /\ UNCHANGED vars

\* timeout or transport failure: `except Exception` logs code 500 (best effort)
ProxyFail(p) ==
    /\ UNCHANGED sequence_tables
    /\ inv[p].pc = "in_flight"
    /\ \E log_ok \in BOOLEAN :
        LET e == log_entry(inv[p].caller_id, inv[p].key_id, "proxy_call", 500, TRUE)
        IN  /\ audit_logs' = create_log_entry(audit_logs, e, log_ok)
            /\ Done(p, inv[p], best_effort("proxy_failed", log_ok), 0, log_ok)
    /\ UNCHANGED <<stored_keys, access_grants, usage_counters, now, next_key_id,
                   next_grant_id>>

Next ==
    \/ \E n \in Names, a \in ApiKeys, s \in OwnerSessions :
          LogRoom /\ AddKey(n, a, s)
    \/ \E i \in GrantInputs :
          LogRoom /\ GrantAccess(i.key_id, i.caller_id, i.perm, i.expiry, i.session)
    \/ \E k \in KeyIds, s \in Sessions : LogRoom /\ RevokeKey(k, s)
    \/ \E g \in 1..MaxGrants, o \in Agents : RevokeGrant(g, o)
    \/ Sweep
    \/ now < MaxTime /\ Tick
    \/ \E p \in Procs, k \in KeyIds \cup {EmptyId}, u \in Urls, s \in Sessions :
          LogRoom /\ ProxyStart(p, k, u, s)
    \/ \E p \in Procs : AuthDeactivate(p)
    \/ \E p \in Procs : GetGrant(p)
    \/ \E p \in Procs : GrantDeactivate(p)
    \/ \E p \in Procs, st \in StatusCodes, sz \in PayloadSizes, rt \in ResponseTimes :
          \E reflects \in BOOLEAN : ProxyRespond(p, st, sz, rt, reflects)
    \/ \E p \in Procs : ProxyFail(p)

Spec == Init /\ [][Next]_vars

\* strictly sequential callers: at most one proxy_call invocation in progress
NextSeq ==
    \/ \E n \in Names, a \in ApiKeys, s \in OwnerSessions :
          LogRoom /\ AddKey(n, a, s)
    \/ \E i \in GrantInputs :
          LogRoom /\ GrantAccess(i.key_id, i.caller_id, i.perm, i.expiry, i.session)
    \/ \E k \in KeyIds, s \in Sessions : LogRoom /\ RevokeKey(k, s)
    \/ \E g \in 1..MaxGrants, o \in Agents : RevokeGrant(g, o)
    \/ Sweep
    \/ now < MaxTime /\ Tick
    \/ \E p \in Procs, k \in KeyIds \cup {EmptyId}, u \in Urls, s \in Sessions :
          InFlight = {} /\ LogRoom /\ ProxyStart(p, k, u, s)
    \/ \E p \in Procs : AuthDeactivate(p)
    \/ \E p \in Procs : GetGrant(p)
    \/ \E p \in Procs : GrantDeactivate(p)
    \/ \E p \in Procs, st \in StatusCodes, sz \in PayloadSizes, rt \in ResponseTimes :
          \E reflects \in BOOLEAN : ProxyRespond(p, st, sz, rt, reflects)
    \/ \E p \in Procs : ProxyFail(p)

SpecSeq == Init /\ [][NextSeq]_vars

\* ---- the vault under concurrent owners ------------------------------------
\* store_key and rotate_key each read the table and then write it in a second
\* transaction; several workers share the database, so other operations can
\* land between the two.
MaxVaultKeys == 2
VaultKeyIds == 1..MaxVaultKeys
VaultNames == {"k1", "k2"}
SkLive2 == [text |-> "sk-live-2", len |-> 9, blank |-> FALSE, control |-> FALSE]
RotateApiKeys == {SkLive2, SkShort}
DefaultLimit == 100                   \* filters.get('limit', 100)
\* grant_access as the vault runs see it: well-formed requests for one day
VaultGrantInputs ==
    {i \in GrantInputs : i.perm = [kind |-> "int", val |-> 1] /\ i.expiry = 1
                         /\ i.key_id # EmptyId /\ i.caller_id # ""
                         /\ i.session # ""}

StoreRoom ==
    next_key_id + Cardinality({p \in Procs : inv[p].pc = "store_insert"})
        <= MaxVaultKeys

\* KeyManager.store_key up to the duplicate check among the owner's active keys
StoreBegin(p, key_name, api_key, owner_session) ==
    /\ UNCHANGED sequence_tables
    /\ inv[p].pc = "idle"
    /\ StoreRoom
    /\ UNCHANGED <<stored_keys, access_grants, usage_counters, audit_logs, now,
                   next_key_id, next_grant_id>>
    /\ IF ~validate_coral_session(owner_session)
          \/ ~validate_api_key(api_key)
          \/ name_taken(stored_keys, owner_session, key_name)
       THEN /\ ret' = OwnerRet("add_key", "ValueError", 0, FALSE)
            /\ UNCHANGED inv
       ELSE Goto(p, [Idle EXCEPT !.caller_id = owner_session, !.name = key_name,
                                 !.secret = api_key], "store_insert")

\* KeyStorageService.store_key: the INSERT; then add_key logs (best effort)
StoreInsert(p) ==
    /\ UNCHANGED sequence_tables
    /\ inv[p].pc = "store_insert"
    /\ inv' = [inv EXCEPT ![p] = Idle]
    /\ UNCHANGED <<access_grants, usage_counters, now, next_grant_id>>
    /\ LET row == create_new_key(next_key_id, inv[p].caller_id, inv[p].name,
                                 inv[p].secret)
       IN  IF ~insertable(stored_keys, row)
           THEN /\ ret' = OwnerRet("add_key", "RuntimeError", 0, FALSE)
                /\ UNCHANGED <<stored_keys, audit_logs, next_key_id>>
           ELSE \E log_ok \in BOOLEAN :
                    /\ stored_keys' = stored_keys \cup {row}
                    /\ next_key_id' = next_key_id + 1
                    /\ audit_logs' = create_log_entry(audit_logs,
                          log_entry(inv[p].caller_id, next_key_id, "proxy_call",
                                    200, FALSE), log_ok)
                    /\ ret' = OwnerRet("add_key", best_effort("ok", log_ok),
                                       next_key_id, ~log_ok)

\* StoredKey.rotate_key: the new ciphertext replaces the old one
rotate_key(row, new_encrypted_key) ==
    [row EXCEPT !.encrypted_key = new_encrypted_key]

\* mutant: the write of rotate_key is lost
update_key_lost(keys, row) == keys

\* KeyStorageService.update_key: UPDATE every column WHERE key_id = ?
update_key(keys, row) ==
    {IF k.key_id = row.key_id THEN row ELSE k : k \in keys}

\* KeyManager.rotate_key up to get_key: the row is read, and must be active
RotateRead(p, key_id, new_api_key, owner_id) ==
    /\ UNCHANGED sequence_tables
    /\ inv[p].pc = "idle"
    /\ UNCHANGED <<stored_keys, access_grants, usage_counters, audit_logs, now,
                   next_key_id, next_grant_id>>
    /\ IF ~validate_api_key(new_api_key)
          \/ ~verify_key_ownership(stored_keys, key_id, owner_id)
          \/ ~retrievable(stored_keys, key_id)
       THEN /\ ret' = OwnerRet("rotate_key", "ValueError", key_id, FALSE)
            /\ UNCHANGED inv
       ELSE Goto(p, [Idle EXCEPT !.key_id = key_id, !.caller_id = owner_id,
                                 !.name = (CHOOSE k \in get_key(stored_keys,
                                                                 key_id) : TRUE).key_name,
                                 !.secret = new_api_key], "rotate_write")

\* the rest of rotate_key: the row as it was read, with the new ciphertext,
\* is written back whole
RotateWrite(p) ==
    /\ UNCHANGED sequence_tables
    /\ inv[p].pc = "rotate_write"
    /\ LET read == [key_id |-> inv[p].key_id, owner_id |-> inv[p].caller_id,
                    key_name |-> inv[p].name, is_active |-> TRUE,
                    encrypted_key |-> encrypt(MasterKey, NoSecret)]
       IN  stored_keys' = update_key(stored_keys,
                             rotate_key(read, encrypt(MasterKey, inv[p].secret)))
    /\ inv' = [inv EXCEPT ![p] = Idle]
    /\ ret' = OwnerRet("rotate_key", "True", inv[p].key_id, FALSE)
    /\ UNCHANGED <<access_grants, usage_counters, audit_logs, now, next_key_id,
                   next_grant_id>>

\* KeyManager._retrieve_key_for_proxy
RetrieveKey(key_id) ==
    /\ UNCHANGED sequence_tables
    /\ UNCHANGED <<stored_keys, access_grants, usage_counters, audit_logs, now,
                   next_key_id, next_grant_id, inv>>
    /\ ret' = IF ~retrievable(stored_keys, key_id)
              THEN [NoRet EXCEPT !.op = "retrieve_key", !.result = "ValueError",
                                 !.id = key_id]
              ELSE IF retrieve_key_for_proxy(stored_keys, key_id) = NoSecret
              THEN [NoRet EXCEPT !.op = "retrieve_key", !.result = "RuntimeError",
                                 !.id = key_id]
              ELSE [NoRet EXCEPT !.op = "retrieve_key", !.result = "ok",
                                 !.id = key_id,
                                 !.data = retrieve_key_for_proxy(stored_keys,
                                                                 key_id)]

\* ---- SageMCP.list_logs / LoggingService.get_logs_for_key ------------------
RECURSIVE Reverse(_)
Reverse(seq) ==
    IF seq = << >> THEN << >> ELSE Append(Reverse(Tail(seq)), Head(seq))

\* mutant: the key_id condition is missing from the query
get_logs_any_key(logs, key_id, caller_id, limit) ==
    LET rows == Reverse(SelectSeq(logs,
                    LAMBDA e : caller_id = "" \/ e.caller_id = caller_id))
    IN  SubSeq(rows, 1, IF Len(rows) < limit THEN Len(rows) ELSE limit)

\* WHERE key_id = ? [AND caller_id = ?] ORDER BY timestamp DESC LIMIT ?, for
\* entries whose timestamps grow with the order of writing (the entries here
\* carry no timestamp; order_by_timestamp_desc has the general case)
get_logs_for_key(logs, key_id, caller_id, limit) ==
    LET rows == Reverse(SelectSeq(logs,
                    LAMBDA e : /\ e.key_id = key_id
                               /\ (caller_id = "" \/ e.caller_id = caller_id)))
    IN  SubSeq(rows, 1, IF Len(rows) < limit THEN Len(rows) ELSE limit)

ListLogs(key_id, caller_filter, owner_session) ==
    /\ UNCHANGED sequence_tables
    /\ UNCHANGED <<stored_keys, access_grants, usage_counters, audit_logs, now,
                   next_key_id, next_grant_id, inv>>
    /\ ret' = IF ~validate_coral_session(owner_session)
                 \/ ~verify_key_ownership(stored_keys, key_id, owner_session)
              THEN [NoRet EXCEPT !.op = "list_logs", !.result = "ValueError",
                                 !.key_id = key_id, !.caller_id = owner_session]
              ELSE [NoRet EXCEPT !.op = "list_logs", !.result = "ok",
                                 !.key_id = key_id, !.caller_id = owner_session,
                                 !.logs = get_logs_for_key(audit_logs, key_id,
                                                           caller_filter,
                                                           DefaultLimit)]

NextVault ==
    \/ \E p \in Procs, n \in VaultNames, a \in ApiKeys, s \in Sessions :
          LogRoom /\ StoreBegin(p, n, a, s)
    \/ \E p \in Procs : StoreInsert(p)
    \/ \E p \in Procs, k \in VaultKeyIds, a \in RotateApiKeys, o \in Agents :
          RotateRead(p, k, a, o)
    \/ \E p \in Procs : RotateWrite(p)
    \/ \E k \in VaultKeyIds, s \in Sessions : LogRoom /\ RevokeKey(k, s)
    \/ \E k \in VaultKeyIds : RetrieveKey(k)
    \/ \E i \in VaultGrantInputs :
          LogRoom /\ GrantAccess(i.key_id, i.caller_id, i.perm, i.expiry, i.session)
    \/ \E k \in VaultKeyIds, c \in Grantees \cup {""}, s \in Sessions :
          ListLogs(k, c, s)

SpecVault == Init /\ [][NextVault]_vars

\* ---- LoggingService alone: audit_logs and log_sequence --------------------
MaxAuditWrites == 4
MaxAuditTime == 4
LogIds == 1..3
AuditActions == {"proxy_call", "rate_limit_blocked"}
AuditCallers == {"coral_b", ""}
RetentionInputs == {0, 1}

\* PrivacyAuditLog.create_new: the uuid and the time of creation join the
\* fields the caller decided
create_new_log(log_id, t, entry) ==
    [log_id |-> log_id, timestamp |-> t, caller_id |-> entry.caller_id,
     key_id |-> entry.key_id, action |-> entry.action,
     response_code |-> entry.response_code, error |-> entry.error]

LogIdsOf(logs) == {logs[i].log_id : i \in 1..Len(logs)}

MaxId(rows) == IF rows = {} THEN 0
               ELSE CHOOSE m \in {r.id : r \in rows} : \A r \in rows : r.id <= m

\* mutant: id INTEGER PRIMARY KEY without AUTOINCREMENT, the largest rowid
\* in the table plus one
next_rowid(rows, high) == MaxId(rows) + 1

\* id INTEGER PRIMARY KEY AUTOINCREMENT: one more than the largest id the
\* table ever held
autoincrement(rows, high) == high + 1

\* mutant: the entries at the cutoff go as well
older_than_inclusive(row, cutoff) == row.timestamp <= cutoff

\* WHERE timestamp < ?
older_than(row, cutoff) == row.timestamp < cutoff

\* datetime.utcnow() - timedelta(days = days_to_keep)
cutoff_date(t, days_to_keep) == t - days_to_keep * TicksPerDay

RECURSIVE delete_old(_, _)
\* DELETE FROM audit_logs WHERE timestamp < ?
delete_old(logs, cutoff) ==
    IF logs = << >> THEN << >>
    ELSE IF older_than(Head(logs), cutoff) THEN delete_old(Tail(logs), cutoff)
    ELSE << Head(logs) >> \o delete_old(Tail(logs), cutoff)

\* DELETE FROM log_sequence WHERE log_id IN (SELECT log_id FROM audit_logs
\* WHERE timestamp < ?)
delete_old_sequence(rows, logs, cutoff) ==
    {r \in rows : ~\E i \in 1..Len(logs) :
                     logs[i].log_id = r.log_id /\ older_than(logs[i], cutoff)}

\* _create_log_entry behind log_proxy_call and log_rate_limit_blocked: the
\* validation, then both inserts and one commit; a failing statement (the
\* PRIMARY KEY on log_id among them) leaves through the rollback
CreateLogEntry(caller_id, key_id, action, response_code, log_id, store_ok) ==
    /\ UNCHANGED <<stored_keys, access_grants, usage_counters, now,
                   next_key_id, next_grant_id, inv>>
    /\ IF caller_id = "" \/ key_id = EmptyId
       THEN /\ ret' = OwnerRet(action, "ValueError", 0, FALSE)
            /\ UNCHANGED <<audit_logs, log_sequence, sqlite_sequence>>
       ELSE IF ~store_ok \/ log_id \in LogIdsOf(audit_logs)
       THEN /\ ret' = OwnerRet(action, "RuntimeError", 0, FALSE)
            /\ UNCHANGED <<audit_logs, log_sequence, sqlite_sequence>>
       ELSE LET id == autoincrement(log_sequence, sqlite_sequence)
            IN  /\ audit_logs' =
                     Append(audit_logs,
                            create_new_log(log_id, now,
                                log_entry(caller_id, key_id, action,
                                          response_code, FALSE)))
                /\ log_sequence' = log_sequence \cup
                                   {[id |-> id, log_id |-> log_id]}
                /\ sqlite_sequence' = id
                /\ ret' = OwnerRet(action, "ok", log_id, FALSE)

\* cleanup_old_logs: both deletes and one commit, the number of deleted
\* audit rows returned; 0 when the store raises
CleanupOldLogs(days_to_keep, store_ok) ==
    /\ UNCHANGED <<stored_keys, access_grants, usage_counters, now,
                   next_key_id, next_grant_id, inv, sqlite_sequence>>
    /\ IF days_to_keep <= 0
       THEN /\ ret' = OwnerRet("cleanup_old_logs", "ValueError", 0, FALSE)
            /\ UNCHANGED <<audit_logs, log_sequence>>
       ELSE IF ~store_ok
       THEN /\ ret' = OwnerRet("cleanup_old_logs", "ok", 0, FALSE)
            /\ UNCHANGED <<audit_logs, log_sequence>>
       ELSE LET cutoff == cutoff_date(now, days_to_keep)
                kept == delete_old(audit_logs, cutoff)
            IN  /\ log_sequence' =
                     delete_old_sequence(log_sequence, audit_logs, cutoff)
                /\ audit_logs' = kept
                /\ ret' = OwnerRet("cleanup_old_logs", "ok",
                                   Len(audit_logs) - Len(kept), FALSE)

NextAudit ==
    \/ \E c \in AuditCallers, a \in AuditActions, l \in LogIds, ok \in BOOLEAN :
          sqlite_sequence < MaxAuditWrites
          /\ CreateLogEntry(c, 1, a, IF a = "proxy_call" THEN 200 ELSE 429, l, ok)
    \/ \E d \in RetentionInputs, ok \in BOOLEAN : CleanupOldLogs(d, ok)
    \/ now < MaxAuditTime /\ Tick

SpecAudit == Init /\ [][NextAudit]_vars

\* ---- one owner, one granted caller, one caller without a grant ------------
\* the calls come one after the other, the provider answers every call, no
\* audit write fails, and the day does not end
ScenarioUrl == "https://host/path"

ScenarioPerm == [kind |-> "int", val |-> 2]

RowsOf(logs, caller_id, action) ==
    Len(SelectSeq(logs, LAMBDA e : e.caller_id = caller_id /\ e.action = action))

NextScenario ==
    \/ stored_keys = {} /\ AddKey("k1", SkLive1, "coral_a") /\ ~ret'.log_err
    \/ /\ stored_keys # {}
       /\ access_grants = {}
       /\ GrantAccess(1, "coral_b", ScenarioPerm, TicksPerDay, "coral_a")
       /\ ~ret'.log_err
    \/ /\ access_grants # {}
       /\ InFlight = {}
       /\ RowsOf(audit_logs, "coral_b", "rate_limit_blocked") = 0
       /\ ProxyStart(1, 1, ScenarioUrl, "coral_b")
    \/ /\ stored_keys # {}
       /\ InFlight = {}
       /\ RowsOf(audit_logs, Outsider, "authorization_failed") = 0
       /\ ProxyStart(1, 1, ScenarioUrl, Outsider)
       /\ ~ret'.log_err
    \/ GetGrant(1) /\ ~ret'.log_err
    \/ \E z \in PayloadSizes, t \in ResponseTimes, r \in BOOLEAN :
          ProxyRespond(1, 200, z, t, r) /\ ~ret'.log_err
    \/ \E c \in {"", "coral_b", Outsider} : ListLogs(1, c, "coral_a")
    \/ now < TicksPerDay - 1 /\ Tick

SpecScenario == Init /\ [][NextScenario]_vars

\* ---- PolicyEngine alone: the usage counters under concurrent workers ------
\* increment_usage reads the row of today, computes the new values in the
\* worker, and writes them back; sqlite3 opens the transaction at the write
LedgerCallers == {"coral_a", "coral_b"}
LedgerPayloads == {1, 2}

\* UsageCounter.create_new
create_new_counter(key_id, caller_id, date) ==
    [key_id |-> key_id, caller_id |-> caller_id, date |-> date,
     call_count |-> 0, total_payload_size |-> 0, response_time_total |-> 0]

\* UsageCounter.increment_usage
counter_increment_usage(counter, payload_size, response_time) ==
    [counter EXCEPT !.call_count = @ + 1,
                    !.total_payload_size = @ + payload_size,
                    !.response_time_total = @ + response_time]

\* UPDATE usage_counters SET call_count = ?, total_payload_size = ?,
\* average_response_time = ? WHERE key_id = ? AND caller_id = ? AND date = ?
update_counter(counters, counter) ==
    {IF r.key_id = counter.key_id /\ r.caller_id = counter.caller_id
        /\ r.date = counter.date
     THEN counter ELSE r : r \in counters}

\* INSERT INTO usage_counters under PRIMARY KEY (key_id, caller_id, date):
\* the IntegrityError of a second insert is caught and logged
insert_counter(counters, counter) ==
    IF CounterRows(counters, counter.key_id, counter.caller_id, counter.date) = {}
    THEN counters \cup {counter}
    ELSE counters

\* today = date.today() and the SELECT of the row of today
IncrementSelect(p, key_id, caller_id, payload_size, response_time) ==
    /\ UNCHANGED sequence_tables
    /\ inv[p].pc = "idle"
    /\ UNCHANGED <<stored_keys, access_grants, usage_counters, audit_logs, now,
                   next_key_id, next_grant_id>>
    /\ Goto(p, [Idle EXCEPT !.key_id = key_id, !.caller_id = caller_id,
                            !.day = Today,
                            !.row = CounterRows(usage_counters, key_id, caller_id,
                                                Today),
                            !.payload_size = payload_size,
                            !.response_time = response_time], "usage_write")

\* the UPDATE or the INSERT, and the commit; increment_usage returns None
IncrementWrite(p) ==
    /\ UNCHANGED sequence_tables
    /\ inv[p].pc = "usage_write"
    /\ LET rec == inv[p]
           old == IF rec.row = {}
                  THEN create_new_counter(rec.key_id, rec.caller_id, rec.day)
                  ELSE CHOOSE r \in rec.row : TRUE
           new == counter_increment_usage(old, rec.payload_size, rec.response_time)
       IN  usage_counters' = IF rec.row = {}
                             THEN insert_counter(usage_counters, new)
                             ELSE update_counter(usage_counters, new)
    /\ inv' = [inv EXCEPT ![p] = Idle]
    /\ ret' = OwnerRetFor("increment_usage", "None", 0, FALSE, inv[p].key_id,
                          inv[p].caller_id)
    /\ UNCHANGED <<stored_keys, access_grants, audit_logs, now, next_key_id,
                   next_grant_id>>

\* PolicyEngine.check_rate_limit for a grant with this max_calls_per_day;
\* ret.id is the usage get_current_usage reads
CheckRateLimit(key_id, caller_id, max_calls) ==
    /\ UNCHANGED sequence_tables
    /\ UNCHANGED <<stored_keys, access_grants, usage_counters, audit_logs, now,
                   next_key_id, next_grant_id, inv>>
    /\ ret' = OwnerRetFor("check_rate_limit",
                          IF check_rate_limit(usage_counters, key_id, caller_id,
                                              Today, max_calls)
                          THEN "True" ELSE "False",
                          get_current_usage(usage_counters, key_id, caller_id,
                                            Today),
                          FALSE, key_id, caller_id)

NextLedger ==
    \/ \E p \in Procs, k \in KeyIds, c \in LedgerCallers, z \in LedgerPayloads,
          t \in ResponseTimes :
          CallRoom /\ IncrementSelect(p, k, c, z, t)
    \/ \E p \in Procs : IncrementWrite(p)
    \/ \E k \in KeyIds, c \in LedgerCallers, m \in Limits : CheckRateLimit(k, c, m)
    \/ now < MaxTime /\ Tick

SpecLedger == Init /\ [][NextLedger]_vars

\* ---- every grant carries the same max_calls_per_day -----------------------
FixedLimit == 1

FixedLimitInputs ==
    {i \in GrantInputs : i.perm = [kind |-> "int", val |-> FixedLimit]}

NextFixedLimit ==
    \/ \E n \in Names, a \in ApiKeys, s \in OwnerSessions :
          LogRoom /\ AddKey(n, a, s)
    \/ \E i \in FixedLimitInputs :
          LogRoom /\ GrantAccess(i.key_id, i.caller_id, i.perm, i.expiry, i.session)
    \/ \E k \in KeyIds, s \in Sessions : LogRoom /\ RevokeKey(k, s)
    \/ \E g \in 1..MaxGrants, o \in Agents : RevokeGrant(g, o)
    \/ Sweep
    \/ now < MaxTime /\ Tick
    \/ \E p \in Procs, k \in KeyIds \cup {EmptyId}, u \in Urls, s \in Sessions :
          LogRoom /\ ProxyStart(p, k, u, s)
    \/ \E p \in Procs : AuthDeactivate(p)
    \/ \E p \in Procs : GetGrant(p)
    \/ \E p \in Procs : GrantDeactivate(p)
    \/ \E p \in Procs, st \in StatusCodes, sz \in PayloadSizes, rt \in ResponseTimes :
          \E reflects \in BOOLEAN : ProxyRespond(p, st, sz, rt, reflects)
    \/ \E p \in Procs : ProxyFail(p)

SpecFixedLimit == Init /\ [][NextFixedLimit]_vars

\* ---- LoggingService under concurrent workers: the order of the entries ----
\* _create_log_entry takes the timestamp in PrivacyAuditLog.create_new, in
\* the worker, and inserts afterwards; get_logs_for_key orders by the
\* timestamp column alone
MaxOrderWrites == 3
MaxOrderTime == 2

\* uuid4: a log_id no entry and no worker holds
FreshLogId ==
    LET used == LogIdsOf(audit_logs)
                  \cup {inv[q].row.log_id : q \in {r \in Procs : inv[r].pc = "log_insert"}}
    IN  CHOOSE l \in 1..(MaxOrderWrites + Cardinality(Procs)) : l \notin used
            /\ \A m \in 1..(MaxOrderWrites + Cardinality(Procs)) : m \notin used => l <= m

\* _create_log_entry up to the INSERT: the validation, then create_new with
\* datetime.utcnow()
CreateNewLog(p, caller_id, key_id, action, response_code) ==
    /\ UNCHANGED sequence_tables
    /\ UNCHANGED <<stored_keys, access_grants, usage_counters, audit_logs, now,
                   next_key_id, next_grant_id>>
    /\ inv[p].pc = "idle"
    /\ IF caller_id = "" \/ key_id = EmptyId
       THEN /\ ret' = OwnerRet(action, "ValueError", 0, FALSE)
            /\ UNCHANGED inv
       ELSE Goto(p, [Idle EXCEPT !.row =
                        create_new_log(FreshLogId, now,
                            log_entry(caller_id, key_id, action, response_code,
                                      FALSE))],
                 "log_insert")

\* the two INSERTs and the commit; a failing statement leaves through the
\* rollback and RuntimeError
InsertLog(p, store_ok) ==
    /\ UNCHANGED <<stored_keys, access_grants, usage_counters, now,
                   next_key_id, next_grant_id>>
    /\ inv[p].pc = "log_insert"
    /\ inv' = [inv EXCEPT ![p] = Idle]
    /\ IF ~store_ok
       THEN /\ ret' = OwnerRet(inv[p].row.action, "RuntimeError", 0, FALSE)
            /\ UNCHANGED <<audit_logs, log_sequence, sqlite_sequence>>
       ELSE LET id == autoincrement(log_sequence, sqlite_sequence)
            IN  /\ audit_logs' = Append(audit_logs, inv[p].row)
                /\ log_sequence' = log_sequence \cup
                                   {[id |-> id, log_id |-> inv[p].row.log_id]}
                /\ sqlite_sequence' = id
                /\ ret' = OwnerRet(inv[p].row.action, "ok", inv[p].row.log_id,
                                   FALSE)

\* the results SELECT ... WHERE key_id = ? [AND caller_id = ?] ORDER BY
\* timestamp DESC LIMIT ? may return: every arrangement of the matching
\* rows with non-increasing timestamps (the order among equal timestamps is
\* the engine's), cut at the limit
order_by_timestamp_desc(logs, key_id, caller_id, limit) ==
    LET rows == {i \in 1..Len(logs) :
                    /\ logs[i].key_id = key_id
                    /\ (caller_id = "" \/ logs[i].caller_id = caller_id)}
        n == Cardinality(rows)
        sorted == {f \in [1..n -> rows] :
                     /\ \A i, j \in 1..n : i # j => f[i] # f[j]
                     /\ \A i, j \in 1..n :
                           i < j => logs[f[i]].timestamp >= logs[f[j]].timestamp}
    IN  {[i \in 1..(IF n < limit THEN n ELSE limit) |-> logs[f[i]]] : f \in sorted}

\* LoggingService.get_logs_for_key
GetLogsForKey(key_id, caller_id) ==
    /\ UNCHANGED sequence_tables
    /\ UNCHANGED <<stored_keys, access_grants, usage_counters, audit_logs, now,
                   next_key_id, next_grant_id, inv>>
    /\ \E rows \in order_by_timestamp_desc(audit_logs, key_id, caller_id,
                                           DefaultLimit) :
          ret' = [NoRet EXCEPT !.op = "get_logs_for_key", !.result = "ok",
                               !.key_id = key_id, !.logs = rows]

NextOrder ==
    \/ \E p \in Procs, c \in AuditCallers, a \in AuditActions :
          /\ sqlite_sequence + Cardinality(InFlight) < MaxOrderWrites
          /\ CreateNewLog(p, c, 1, a, IF a = "proxy_call" THEN 200 ELSE 429)
    \/ \E p \in Procs, ok \in BOOLEAN : InsertLog(p, ok)
    \/ \E c \in AuditCallers : GetLogsForKey(1, c)
    \/ now < MaxOrderTime /\ Tick

SpecOrder == Init /\ [][NextOrder]_vars

\* ---- proxy_call under fair scheduling: two callers with a grant each -------
\* every store call returns, so a started invocation takes its next step;
\* the provider may stay silent, and the ClientTimeout(total = timeout) of
\* the session then ends the outbound call
MaxLiveLog == 2
LiveCallers == {"coral_b", Outsider}
LivePerms == {[kind |-> "int", val |-> 1]}

LiveRoom == Len(audit_logs) + Cardinality(InFlight) < MaxLiveLog

NextLive ==
    \/ stored_keys = {} /\ AddKey("k1", SkLive1, "coral_a")
    \/ \E c \in LiveCallers, q \in LivePerms :
          LiveRoom /\ GrantAccess(1, c, q, 1, "coral_a")
    \/ now < MaxTime /\ Tick
    \/ \E p \in Procs, s \in LiveCallers :
          LiveRoom /\ ProxyStart(p, 1, "https://host/path", s)
    \/ \E p \in Procs : AuthDeactivate(p)
    \/ \E p \in Procs : GetGrant(p)
    \/ \E p \in Procs : GrantDeactivate(p)
    \/ \E p \in Procs, st \in StatusCodes, sz \in PayloadSizes, rt \in ResponseTimes :
          ProxyRespond(p, st, sz, rt, FALSE)
    \/ \E p \in Procs : ProxyFail(p)

\* the event loop resumes every invocation whose store call returned, and
\* the timeout of the outbound call fires unless the provider answered
LiveFairness ==
    \A p \in Procs :
        /\ WF_vars(AuthDeactivate(p))
        /\ WF_vars(GetGrant(p))
        /\ WF_vars(GrantDeactivate(p))
        /\ WF_vars(ProxyFail(p))

SpecLive == Init /\ [][NextLive]_vars /\ LiveFairness

\* ---- helpers of the properties -------------------------------------------
\* the step ends a proxy_call invocation
Finishes == ret'.op = "proxy_call"

\* the step ends a proxy_call invocation by appending exactly this audit entry
Logs(action, code, error) ==
    audit_logs' = Append(audit_logs, [caller_id |-> ret'.caller_id,
                                      key_id |-> ret'.key_id, action |-> action,
                                      response_code |-> code, error |-> error])

UsageToday(counters, key_id, caller_id) ==
    LET rows == {r \in counters : r.key_id = key_id /\ r.caller_id = caller_id
                                  /\ r.date = Today}
    IN  IF rows = {} THEN 0 ELSE (CHOOSE r \in rows : TRUE).call_count

\* the active grants of a pair that are not past their expiry
LiveGrants(key_id, caller_id) ==
    {g \in access_grants : g.key_id = key_id /\ g.caller_id = caller_id
                           /\ g.is_active /\ now <= g.expires_at}

\* ---- C1 ------------------------------------------------------------------
\* C1: a request is in the hands of the Proxy Executor only for an invocation
\* whose authorization check saw an active, non-expired grant for exactly its
\* (credential, caller) pair.
C1_OutboundOnlyAfterAuthorization ==
    \A p \in Procs : inv[p].pc = "in_flight" => inv[p].grant_at_check

C1_Witness ==
    \E p \in Procs : inv[p].pc = "in_flight" /\ inv[p].grant_at_check
                     /\ inv[p].caller_id \in Grantees

\* ---- C2 ------------------------------------------------------------------
\* C2: with strictly sequential calls, the rate check of a call that holds a
\* live grant with limit N admits it iff today's call count is below N and
\* otherwise rejects it with the rate-limit error; a completed call on the day
\* of its check leaves the count one higher and at most N; and a non-positive
\* limit is never within limit.
C2_SequentialQuota ==
    [][ /\ \A u \in 0..MaxCalls, m \in {-1, 0} : ~within_limit(u, m)
        /\ \A p \in Procs :
            LET k == inv[p].key_id
                c == inv[p].caller_id
                live == LiveGrants(k, c)
                u == UsageToday(usage_counters, k, c)
            IN  /\ (inv[p].pc = "get_grant" /\ inv'[p] # inv[p] /\ live # {}) =>
                     \A g \in live :
                        /\ u < g.max_calls =>
                             \/ inv'[p].pc = "in_flight"
                             \/ Finishes /\ ret'.result \in {"key_error", "invalid_url"}
                        /\ u >= g.max_calls =>
                             Finishes /\ ret'.result = "rate_limited"
                /\ (inv[p].pc = "in_flight" /\ inv'[p].pc = "idle" /\ ret'.status # 0
                    /\ inv[p].day = Today) =>
                     /\ UsageToday(usage_counters', k, c) = inv[p].used + 1
                     /\ UsageToday(usage_counters', k, c) <= inv[p].max_calls
      ]_vars

C2_Witness ==
    /\ ret.op = "proxy_call"
    /\ ret.result = "rate_limited"
    /\ \E g \in LiveGrants(ret.key_id, ret.caller_id) :
          UsageToday(usage_counters, ret.key_id, ret.caller_id) = g.max_calls

\* ---- C3 ------------------------------------------------------------------
\* C3: under any interleaving, when an invocation increments the usage of its
\* pair, the day's call count stays within the limit of the grant it was
\* admitted under or of the grant now in force.
C3_QuotaNeverExceeded ==
    [][ \A p \in Procs :
          (inv[p].pc = "in_flight" /\ inv'[p].pc = "idle"
           /\ usage_counters' # usage_counters) =>
             LET n == UsageToday(usage_counters', inv[p].key_id, inv[p].caller_id)
             IN  \/ n <= inv[p].max_calls
                 \/ \E g \in LiveGrants(inv[p].key_id, inv[p].caller_id) :
                       n <= g.max_calls
      ]_vars

\* ---- C4 ------------------------------------------------------------------
\* C4: every proxy_call invocation that passed input validation and whose
\* audit store accepted writes ends by leaving an audit entry for its (caller,
\* credential): proxy_call with the provider status on success,
\* authorization_failed/403 on an authorization denial, rate_limit_blocked/429
\* on a rate-limit denial, proxy_call/500 with an error on a transport
\* failure, and some entry for the pair on every other outcome.
C4_EveryOutcomeAudited ==
    [][ (Finishes /\ ret'.result # "ValueError" /\ ~ret'.log_err) =>
          CASE ret'.result = "ok" -> Logs("proxy_call", ret'.status, FALSE)
            [] ret'.result = "access_denied" -> Logs("authorization_failed", 403, TRUE)
            [] ret'.result = "rate_limited" -> Logs("rate_limit_blocked", 429, TRUE)
            [] ret'.result = "proxy_failed" -> Logs("proxy_call", 500, TRUE)
            [] OTHER -> /\ Len(audit_logs') = Len(audit_logs) + 1
                        /\ audit_logs'[Len(audit_logs')].caller_id = ret'.caller_id
                        /\ audit_logs'[Len(audit_logs')].key_id = ret'.key_id
      ]_vars

\* ---- C5 ------------------------------------------------------------------
\* C5: an invocation that fails after the rate check (get_grant finding no
\* grant, credential missing or inactive, invalid target URL) ends by writing
\* a proxy_call audit entry with code 500 and the error.
C5_LateFailuresAudited ==
    [][ (Finishes /\ ret'.result \in {"no_grant", "key_error", "invalid_url"}
         /\ ~ret'.log_err) => Logs("proxy_call", 500, TRUE)
      ]_vars

\* ---- C6 ------------------------------------------------------------------
\* C6: an invocation for which the Proxy Executor returned a response (and the
\* usage counter was incremented) returns the provider's result to the caller,
\* also when the audit write raised.
C6_AuditFailureKeepsSuccess ==
    (ret.op = "proxy_call" /\ ret.status # 0) => ret.result = "ok"

\* ---- C7 ------------------------------------------------------------------
\* C7: when the audit write raises, add_key still returns the id of a stored,
\* active credential, grant_access still succeeds with the grant stored and
\* active, and a denied or failed proxy_call still raises its own error.
C7_AuditFailureKeepsOwnerOps ==
    ret.log_err =>
        /\ ret.op = "add_key" =>
              /\ ret.result = "ok"
              /\ \E k \in stored_keys : k.key_id = ret.id /\ k.is_active
        /\ ret.op = "grant_access" =>
              /\ ret.result = "ok"
              /\ \E g \in access_grants : g.grant_id = ret.id /\ g.is_active
        /\ (ret.op = "proxy_call" /\ ret.status = 0) =>
              ret.result \in {"access_denied", "rate_limited", "proxy_failed"}

C7_Witness ==
    /\ ret.log_err
    /\ ret.op = "grant_access"
    /\ ret.result = "ok"
    /\ audit_logs = << >>

\* ---- C8 ------------------------------------------------------------------
\* C8: the step in which the Proxy Executor raises leaves every usage counter
\* row unchanged, and so does every other step of an invocation except the
\* one that handles a provider response.
C8_FailedCallNotCounted ==
    [][ /\ (\E p \in Procs : inv[p].pc = "in_flight" /\ inv'[p].pc = "idle"
                             /\ ret'.result = "proxy_failed")
           => usage_counters' = usage_counters
        /\ (Finishes /\ ret'.status = 0) => usage_counters' = usage_counters
        /\ (\E p \in Procs : inv'[p] # inv[p] /\ inv'[p].pc # "idle")
           => usage_counters' = usage_counters
      ]_vars

C8_Witness ==
    /\ ret.op = "proxy_call"
    /\ ret.result = "proxy_failed"
    /\ UsageToday(usage_counters, ret.key_id, ret.caller_id) >= 1

\* ---- C9 ------------------------------------------------------------------
\* C9: no two active grants share a (credential, caller) pair, and a
\* successful grant_access leaves exactly one grant row for its pair: a fresh,
\* active row with the returned id, every earlier row of the pair being gone.
C9_OneActiveGrantPerPair ==
    /\ [](\A g, h \in access_grants :
            (g.is_active /\ h.is_active /\ g.key_id = h.key_id
             /\ g.caller_id = h.caller_id) => g = h)
    /\ [][ (ret'.op = "grant_access" /\ ret'.result = "ok") =>
             \E g \in access_grants' :
                /\ g.grant_id = ret'.id
                /\ g.is_active
                /\ now <= g.expires_at
                /\ \A h \in access_grants : h.grant_id # g.grant_id
                /\ \A h \in access_grants' :
                      (h.key_id = g.key_id /\ h.caller_id = g.caller_id) => h = g
         ]_vars

C9_Witness ==
    /\ ret.op = "grant_access"
    /\ ret.result = "ok"
    /\ ret.id >= 2
    /\ \E g \in access_grants : g.grant_id = ret.id /\ g.is_active
    /\ Cardinality(access_grants) = 1

\* ---- C10 -----------------------------------------------------------------
\* C10: inactive is terminal: a grant row that is active after a step either
\* was the same active row before it or carries an id that was never issued
\* before, so no inactive grant id becomes active again and a later grant for
\* the pair has a different id.
C10_InactiveIsTerminal ==
    [][ /\ \A g \in access_grants : g.grant_id < next_grant_id
        /\ next_grant_id' >= next_grant_id
        /\ \A h \in access_grants' :
              h.is_active => \/ h \in access_grants
                             \/ h.grant_id >= next_grant_id
        /\ \A g \in access_grants : ~g.is_active =>
              \A h \in access_grants' : h.grant_id = g.grant_id => ~h.is_active
      ]_vars

C10_Witness ==
    /\ ret.op = "proxy_call"
    /\ ret.result = "access_denied"
    /\ \E g \in access_grants : /\ ~g.is_active
                                /\ g.key_id = ret.key_id
                                /\ g.caller_id = ret.caller_id

\* ---- C11 -----------------------------------------------------------------
\* C11: once revoke_key has returned success, no grant on the revoked
\* credential is active, so check_authorization is false for every caller
\* that held a grant on it.
C11_RevokeKeyDeauthorizes ==
    (ret.op = "revoke_key" /\ ret.result = "True") =>
        \A g \in access_grants : g.key_id = ret.id => ~g.is_active

\* ---- C12 -----------------------------------------------------------------
\* the step is the validation and check_authorization of a new invocation for
\* the pair (key_id, caller_id), and the check answered `answer`
Checked(key_id, caller_id, answer) ==
    \/ /\ answer
       /\ \E p \in Procs : /\ inv[p].pc = "idle"
                           /\ inv'[p].pc = "get_grant"
                           /\ inv'[p].key_id = key_id
                           /\ inv'[p].caller_id = caller_id
    \/ /\ ~answer
       /\ \/ \E p \in Procs : /\ inv[p].pc = "idle"
                              /\ inv'[p].pc = "auth_expired"
                              /\ inv'[p].key_id = key_id
                              /\ inv'[p].caller_id = caller_id
          \/ /\ Finishes
             /\ inv' = inv
             /\ ret'.result = "access_denied"
             /\ ret'.key_id = key_id
             /\ ret'.caller_id = caller_id

\* C12: check_authorization answers true iff the store holds, for the pair, an
\* active grant whose expires_at is not earlier than the current time: true up
\* to and including expires_at, false at every later time and for a missing or
\* inactive grant.
C12_AuthorizedIffLiveGrant ==
    [][ \A k \in KeyIds, c \in Agents :
          /\ Checked(k, c, TRUE) => LiveGrants(k, c) # {}
          /\ Checked(k, c, FALSE) => LiveGrants(k, c) = {}
      ]_vars

C12_Witness ==
    \E p \in Procs :
        /\ inv[p].pc = "get_grant"
        /\ \E g \in access_grants : /\ g.key_id = inv[p].key_id
                                    /\ g.caller_id = inv[p].caller_id
                                    /\ g.is_active
                                    /\ g.expires_at = now
                                    /\ now > 0

\* ---- C13 -----------------------------------------------------------------
\* C13: a read path (check_authorization, get_grant) that observes an active
\* grant past its expires_at answers false / none, and when it has answered no
\* row with the observed grant id is active; the only rows a read path changes
\* are rows with that id, which are past their expires_at, and the reads
\* themselves change no row.
C13_LazyExpiry ==
    [][ \A p \in Procs :
          LET k == inv[p].key_id
              c == inv[p].caller_id
              stale == {g \in SelectActiveGrant(access_grants, k, c) :
                          now > g.expires_at}
          IN  /\ (inv[p].pc = "get_grant" /\ inv'[p] # inv[p] /\ stale # {}) =>
                    /\ inv'[p].pc = "grant_expired"
                    /\ \A g \in stale : inv'[p].grant_id = g.grant_id
              /\ (inv[p].pc = "idle" /\ inv'[p].pc = "auth_expired") =>
                    \E g \in access_grants :
                        /\ g.grant_id = inv'[p].grant_id
                        /\ g.is_active
                        /\ now > g.expires_at
              /\ (inv[p].pc \in {"idle", "get_grant"} /\ inv'[p] # inv[p]) =>
                    access_grants' = access_grants
              /\ (inv[p].pc \in {"auth_expired", "grant_expired"}
                  /\ inv'[p] # inv[p]) =>
                    /\ Finishes
                    /\ ret'.result = IF inv[p].pc = "auth_expired"
                                     THEN "access_denied" ELSE "no_grant"
                    /\ \A h \in access_grants' :
                          h.grant_id = inv[p].grant_id => ~h.is_active
                    /\ \A g \in access_grants :
                          \/ g \in access_grants'
                          \/ /\ g.grant_id = inv[p].grant_id
                             /\ now > g.expires_at
                             /\ [g EXCEPT !.is_active = FALSE] \in access_grants'
                    /\ Cardinality(access_grants') = Cardinality(access_grants)
      ]_vars

C13_Witness ==
    /\ ret.op = "proxy_call"
    /\ ret.result = "no_grant"
    /\ \E g \in access_grants : /\ g.key_id = ret.key_id
                                /\ g.caller_id = ret.caller_id
                                /\ ~g.is_active
                                /\ now > g.expires_at
    /\ \A p \in Procs : inv[p].pc = "idle"

\* ---- C14 -----------------------------------------------------------------
\* C14: a grant request with an empty key, caller or owner id, with no
\* max_calls_per_day, with one that is not an integer or not positive, or with
\* an expiry that is not strictly after the current time raises a validation
\* error and leaves the grant store as it was (an existing grant of the pair
\* keeps its id, limit, expiry and active flag) and issues no grant id.  The
\* key and the session of the request a step carried out are in ret.
C14_InvalidGrantRejected ==
    [][ ret'.op = "grant_access" =>
          /\ ret'.result = "ValueError" =>
                /\ access_grants' = access_grants
                /\ next_grant_id' = next_grant_id
          /\ ret'.result # "ValueError" =>
                \A c \in GrantCallers, m \in Perms, x \in Expiries :
                   ( \/ ret'.key_id = EmptyId
                     \/ ret'.caller_id = ""
                     \/ c = ""
                     \/ m.kind \in {"missing", "other"}
                     \/ m.val <= 0
                     \/ now + x <= now )
                   => ~GrantAccess(ret'.key_id, c, m, x, ret'.caller_id)
      ]_vars

C14_Witness ==
    /\ ret.op = "grant_access"
    /\ ret.result = "ValueError"
    /\ verify_key_ownership(stored_keys, ret.key_id, ret.caller_id)
    /\ \E g \in access_grants : /\ g.key_id = ret.key_id
                                /\ g.is_active
                                /\ g.grant_id = next_grant_id - 1

\* ---- C15 -----------------------------------------------------------------
\* C15: every stored grant was granted by the owner of the credential it
\* references, and a grant_access by a session that does not own the named
\* credential (or naming a credential that does not exist) raises and leaves
\* the grant store as it was.
C15_GrantOnlyByOwner ==
    /\ [](\A g \in access_grants :
            \E k \in stored_keys : k.key_id = g.key_id /\ k.owner_id = g.granted_by)
    /\ [][ ( /\ ret'.op = "grant_access"
             /\ ~\E k \in stored_keys : /\ k.key_id = ret'.key_id
                                        /\ k.owner_id = ret'.caller_id )
           => /\ ret'.result = "ValueError"
              /\ access_grants' = access_grants
         ]_vars

C15_Witness ==
    /\ ret.op = "grant_access"
    /\ ret.result = "ValueError"
    /\ ret.caller_id \in Grantees
    /\ \E k \in stored_keys : /\ k.key_id = ret.key_id
                              /\ k.is_active
                              /\ k.owner_id # ret.caller_id

\* C16: list_logs returns entries only to the session that owns the key, and
\* every entry it returns is an audit entry of that key; every other session,
\* a caller holding a valid grant on the key included, gets ValueError and no
\* entries.
C16_ListLogsOwnerOnly ==
    ret.op = "list_logs" =>
        /\ (ret.result = "ok") <=>
               /\ validate_coral_session(ret.caller_id)
               /\ \E k \in stored_keys : /\ k.key_id = ret.key_id
                                         /\ k.owner_id = ret.caller_id
        /\ \A i \in 1..Len(ret.logs) :
               /\ ret.logs[i].key_id = ret.key_id
               /\ \E j \in 1..Len(audit_logs) : audit_logs[j] = ret.logs[i]
        /\ ret.result # "ok" => ret.result = "ValueError" /\ ret.logs = << >>

C16_Witness ==
    /\ ret.op = "list_logs"
    /\ ret.result = "ValueError"
    /\ \E g \in access_grants : /\ g.key_id = ret.key_id
                                /\ g.caller_id = ret.caller_id
                                /\ is_valid(g, now)
    /\ \E j \in 1..Len(audit_logs) : audit_logs[j].key_id = ret.key_id
    /\ \E j \in 1..Len(audit_logs) : audit_logs[j].key_id # ret.key_id

\* C17: no two active keys ever share (owner_id, key_name), also when stores
\* for the same owner and name run concurrently; an add_key that raises leaves
\* the vault unchanged, a name an active key of the owner has is never stored
\* again, and the insert fails only against a row of the same owner and name.
C17_UniqueActiveName ==
    /\ [](\A k1, k2 \in stored_keys :
            (/\ k1.is_active /\ k2.is_active
             /\ k1.owner_id = k2.owner_id
             /\ k1.key_name = k2.key_name) => k1 = k2)
    /\ [][ ret'.op = "add_key" =>
            /\ ret'.result # "ok" =>
                  stored_keys' = stored_keys /\ next_key_id' = next_key_id
            /\ \A r \in stored_keys' \ stored_keys :
                  ~name_taken(stored_keys, r.owner_id, r.key_name)
            /\ ret'.result = "RuntimeError" =>
                  \E p \in Procs :
                     /\ inv[p].pc = "store_insert"
                     /\ inv'[p].pc = "idle"
                     /\ \E k \in stored_keys : /\ k.owner_id = inv[p].caller_id
                                               /\ k.key_name = inv[p].name
          ]_vars

C17_Witness ==
    /\ ret.op = "add_key"
    /\ ret.result = "RuntimeError"
    /\ \A k \in stored_keys : k.is_active
    /\ \A p \in Procs : inv[p].pc = "idle"

\* what _retrieve_key_for_proxy hands back for key_id in a vault
Retrieved(keys, key_id) ==
    IF retrievable(keys, key_id) THEN retrieve_key_for_proxy(keys, key_id)
    ELSE NoSecret

\* the invocation that ended in this step
Ended(p, pc) == inv[p].pc = pc /\ inv'[p].pc = "idle"

\* C18: round trip through the vault under one encryption key. Right after a
\* successful store of a valid api key, retrieval of the new key id yields
\* exactly that api key; right after a successful rotate_key, retrieval
\* yields exactly the new api key; no other step changes what retrieval of an
\* active key yields, and _retrieve_key_for_proxy hands back that value.
C18_RoundTrip ==
    /\ [](ret.op = "retrieve_key" /\ ret.result = "ok" =>
            /\ validate_api_key(ret.data)
            /\ ret.data = Retrieved(stored_keys, ret.id))
    /\ [][ /\ \A p \in Procs :
               /\ (Ended(p, "store_insert") /\ ret'.result = "ok") =>
                     /\ validate_api_key(inv[p].secret)
                     /\ Retrieved(stored_keys', ret'.id) = inv[p].secret
               /\ Ended(p, "rotate_write") =>
                     /\ ret'.op = "rotate_key" /\ ret'.result = "True"
                     /\ validate_api_key(inv[p].secret)
                     /\ Retrieved(stored_keys', inv[p].key_id) = inv[p].secret
           /\ \A k \in VaultKeyIds :
               (/\ retrievable(stored_keys, k)
                /\ retrievable(stored_keys', k)
                /\ Retrieved(stored_keys', k) # Retrieved(stored_keys, k))
               => \E p \in Procs : Ended(p, "rotate_write") /\ inv[p].key_id = k
          ]_vars

C18_Witness ==
    /\ ret.op = "retrieve_key"
    /\ ret.result = "ok"
    /\ ret.data = SkLive2
    /\ \E k \in stored_keys : k.key_id # ret.id /\ k.is_active
                              /\ Retrieved(stored_keys, k.key_id) = SkLive1

\* C19: once revoke_key has made a key inactive it stays inactive in every
\* later state, so _retrieve_key_for_proxy fails for it from then on.
C19_RevokedStaysInactive ==
    [][ \A k \in stored_keys :
          ~k.is_active =>
              /\ ~retrievable(stored_keys', k.key_id)
              /\ (ret'.op = "retrieve_key" /\ ret'.id = k.key_id) =>
                     ret'.result = "ValueError"
      ]_vars

\* C20: what proxy_call returns to a caller who does not own the key never
\* holds the api key stored under that key id.
C20_PlaintextNeverReturned ==
    (/\ ret.op = "proxy_call"
     /\ ~verify_key_ownership(stored_keys, ret.key_id, ret.caller_id))
    => \A k \in stored_keys :
          k.key_id = ret.key_id => ret.data # decrypt(MasterKey, k.encrypted_key)

\* ---- C21 -----------------------------------------------------------------
\* C21: the audit log is append-only.  A step leaves the entries as they are,
\* or appends one entry after them, or is a retention cleanup that removes
\* exactly the entries whose timestamp is older than its horizon, keeps every
\* other entry unchanged and in place, and returns the number removed.
C21_AppendOnly ==
    [][ \/ audit_logs' = audit_logs
        \/ /\ Len(audit_logs') = Len(audit_logs) + 1
           /\ SubSeq(audit_logs', 1, Len(audit_logs)) = audit_logs
           /\ ret'.op \in AuditActions
        \/ /\ ret'.op = "cleanup_old_logs"
           /\ \A d \in RetentionInputs, ok \in BOOLEAN :
                CleanupOldLogs(d, ok) =>
                  /\ d > 0
                  /\ audit_logs' =
                       SelectSeq(audit_logs,
                                 LAMBDA r : r.timestamp >= now - d * TicksPerDay)
                  /\ ret'.id = Len(audit_logs) - Len(audit_logs') ]_vars

\* a cleanup has removed an entry and kept one written exactly at the horizon
C21_Witness ==
    /\ ret.op = "cleanup_old_logs"
    /\ ret.id >= 1
    /\ \E i \in 1..Len(audit_logs) : audit_logs[i].timestamp = now - TicksPerDay

\* ---- C22 -----------------------------------------------------------------
\* the sequence number of the audit entry with this log_id
SequenceOf(log_id) == (CHOOSE s \in log_sequence : s.log_id = log_id).id

\* C22: every audit entry has exactly one sequence record and every sequence
\* record refers to an existing entry, after every write, failed write and
\* cleanup; the sequence numbers grow strictly in the order of writing, and a
\* number that was handed out once is never handed out again, also after a
\* cleanup has removed the records that held the largest numbers.
C22_SequenceRecords ==
    /\ [](/\ \A i \in 1..Len(audit_logs) :
               Cardinality({s \in log_sequence :
                              s.log_id = audit_logs[i].log_id}) = 1
          /\ \A s \in log_sequence : s.log_id \in LogIdsOf(audit_logs)
          /\ \A s, t \in log_sequence : s.id = t.id => s = t
          /\ \A i, j \in 1..Len(audit_logs) :
               i < j => SequenceOf(audit_logs[i].log_id)
                          < SequenceOf(audit_logs[j].log_id)
          /\ \A s \in log_sequence : s.id <= sqlite_sequence)
    /\ [][/\ sqlite_sequence' >= sqlite_sequence
          /\ \A s \in log_sequence' \ log_sequence : s.id > sqlite_sequence]_vars

\* an entry was written after a cleanup had removed every earlier one, and
\* its number continues after theirs
C22_Witness ==
    /\ ret.op \in AuditActions
    /\ ret.result = "ok"
    /\ Len(audit_logs) = 1
    /\ Cardinality(log_sequence) = 1
    /\ sqlite_sequence >= 2

\* ---- C23 -----------------------------------------------------------------
\* the owner has stored the credential and granted two calls a day, the
\* granted caller has made two calls and was refused a third, the caller
\* without a grant was refused once
C23_ScenarioDone ==
    /\ InFlight = {}
    /\ UsageToday(usage_counters, 1, "coral_b") = 2
    /\ RowsOf(audit_logs, "coral_b", "rate_limit_blocked") = 1
    /\ RowsOf(audit_logs, Outsider, "authorization_failed") = 1

C23_Kind(logs, action) == Len(SelectSeq(logs, LAMBDA e : e.action = action))

\* C23: after the scenario the owner's list_logs for the credential returns
\* exactly five entries: two proxy_call, one rate_limit_blocked, one
\* authorization_failed and one grant_access, the newest first.
C23_FiveEntries ==
    [][ (C23_ScenarioDone /\ ret'.op = "list_logs" /\ ret'.result = "ok"
         /\ ListLogs(1, "", "coral_a"))
        => /\ Len(ret'.logs) = 5
           /\ C23_Kind(ret'.logs, "proxy_call") = 2
           /\ C23_Kind(ret'.logs, "rate_limit_blocked") = 1
           /\ C23_Kind(ret'.logs, "authorization_failed") = 1
           /\ C23_Kind(ret'.logs, "grant_access") = 1
           /\ ret'.logs = Reverse(audit_logs) ]_vars

\* ---- C24 -----------------------------------------------------------------
\* C24: the steps of one proxy_call invocation keep their order.  The
\* invocation reaches get_grant only from its authorization check, which found
\* a valid grant of its pair; it holds the decrypted credential only once it
\* is handed to the outbound call, which it reaches only from get_grant with
\* the usage of its pair below the limit of an active grant; the usage
\* counters change only in the step in which an outbound call returned; and
\* the proxy_call entry of a completed call is written, or its write fails,
\* only in a step that has incremented the usage of its pair.
C24_StepOrder ==
    /\ [](\A p \in Procs : inv[p].secret # NoSecret => inv[p].pc = "in_flight")
    /\ [][/\ \A p \in Procs :
              /\ (inv'[p].pc = "get_grant" /\ inv[p].pc # "get_grant")
                  => /\ inv[p].pc = "idle"
                     /\ HasValidGrant(access_grants, inv'[p].key_id,
                                      inv'[p].caller_id, now)
              /\ (inv'[p].pc = "in_flight" /\ inv[p].pc # "in_flight")
                  => /\ inv[p].pc = "get_grant"
                     /\ \E g \in LiveGrants(inv[p].key_id, inv[p].caller_id) :
                          UsageToday(usage_counters, inv[p].key_id,
                                     inv[p].caller_id) < g.max_calls
                     /\ inv'[p].secret = Retrieved(stored_keys, inv[p].key_id)
          /\ usage_counters' # usage_counters
              => \E p \in Procs : /\ Ended(p, "in_flight")
                                  /\ ret'.op = "proxy_call"
                                  /\ ret'.result \in {"ok", "audit_failed"}
          /\ (ret'.op = "proxy_call"
              /\ (Logs("proxy_call", ret'.status, FALSE)
                  \/ ret'.result = "audit_failed"))
              => UsageToday(usage_counters', ret'.key_id, ret'.caller_id)
                   = UsageToday(usage_counters, ret'.key_id, ret'.caller_id) + 1
         ]_vars

\* an invocation went through every step: its call was answered, counted and
\* recorded, and the caller is at the limit of its grant
C24_Witness ==
    /\ ret.op = "proxy_call"
    /\ ret.result = "ok"
    /\ Len(audit_logs) > 0
    /\ audit_logs[Len(audit_logs)] =
         [caller_id |-> ret.caller_id, key_id |-> ret.key_id,
          action |-> "proxy_call", response_code |-> ret.status, error |-> FALSE]
    /\ \E g \in LiveGrants(ret.key_id, ret.caller_id) :
         UsageToday(usage_counters, ret.key_id, ret.caller_id) = g.max_calls

\* ---- C25 -----------------------------------------------------------------
\* no stored key has this id and this owner: the id is unknown, or the key
\* belongs to somebody else
C25_NotOwner(key_id, owner_id) ==
    ~\E k \in stored_keys : k.key_id = key_id /\ k.owner_id = owner_id

C25_Untouched == UNCHANGED <<stored_keys, access_grants, audit_logs, inv>>

\* C25: rotate_key, revoke_key, grant_access and list_logs do not reveal
\* whether a key exists.  For a requester who does not own a key of the
\* requested id the outcome is decided by the request alone, the same generic
\* error (or False) whether the id is unknown or belongs to another owner,
\* and no key, grant or audit row changes.
C25_NoExistenceLeak ==
    [][/\ ret'.op = "rotate_key" =>
            \A p \in Procs, k \in VaultKeyIds, a \in RotateApiKeys, o \in Agents :
               (C25_NotOwner(k, o) /\ RotateRead(p, k, a, o))
                 => /\ ret' = OwnerRet("rotate_key", "ValueError", k, FALSE)
                    /\ C25_Untouched
       /\ ret'.op = "revoke_key" =>
            \A k \in VaultKeyIds, s \in Agents :
               (C25_NotOwner(k, s) /\ RevokeKey(k, s))
                 => /\ ret' = OwnerRet("revoke_key", "False", 0, FALSE)
                    /\ C25_Untouched
       /\ ret'.op = "grant_access" =>
            \A k \in VaultKeyIds, c \in Grantees, s \in Agents :
               (C25_NotOwner(k, s)
                /\ GrantAccess(k, c, [kind |-> "int", val |-> 1], 1, s))
                 => /\ ret' = OwnerRetFor("grant_access", "ValueError", 0, FALSE,
                                          k, s)
                    /\ C25_Untouched
       /\ ret'.op = "list_logs" =>
            \A k \in VaultKeyIds, c \in Grantees \cup {""}, s \in Agents :
               (C25_NotOwner(k, s) /\ ListLogs(k, c, s))
                 => /\ ret' = [NoRet EXCEPT !.op = "list_logs",
                                            !.result = "ValueError",
                                            !.key_id = k, !.caller_id = s]
                    /\ C25_Untouched
      ]_vars

\* a requester asked for the logs of an active key of another owner and was
\* answered with the generic error
C25_Witness ==
    /\ ret.op = "list_logs"
    /\ ret.result = "ValueError"
    /\ validate_coral_session(ret.caller_id)
    /\ \E k \in stored_keys : /\ k.key_id = ret.key_id
                              /\ k.is_active
                              /\ k.owner_id # ret.caller_id

\* ---- C26 -----------------------------------------------------------------
C26_Payload(counters, key_id, caller_id, date) ==
    LET rows == CounterRows(counters, key_id, caller_id, date)
    IN  IF rows = {} THEN 0 ELSE (CHOOSE r \in rows : TRUE).total_payload_size

\* C26: no increment is lost.  Every increment_usage that completes raises
\* the call_count of the row of its pair and day by exactly one and the
\* total_payload_size by its payload size, including the increment that
\* creates the row; so after K completed increments the row holds K calls
\* and the sum of their payload sizes.
C26_NoLostUpdate ==
    [][\A p \in Procs :
          Ended(p, "usage_write")
            => /\ get_current_usage(usage_counters', inv[p].key_id,
                                    inv[p].caller_id, inv[p].day)
                    = get_current_usage(usage_counters, inv[p].key_id,
                                        inv[p].caller_id, inv[p].day) + 1
               /\ C26_Payload(usage_counters', inv[p].key_id, inv[p].caller_id,
                              inv[p].day)
                    = C26_Payload(usage_counters, inv[p].key_id,
                                  inv[p].caller_id, inv[p].day)
                      + inv[p].payload_size]_vars

\* ---- C27 -----------------------------------------------------------------
\* the call_count of the row keyed (key_id, caller_id, date), 0 without a row
C27_Count(counters, key_id, caller_id, date) ==
    LET rows == {r \in counters : /\ r.key_id = key_id
                                  /\ r.caller_id = caller_id
                                  /\ r.date = date}
    IN  IF rows = {} THEN 0 ELSE (CHOOSE r \in rows : TRUE).call_count

C28_Valid(grants, t) == {g \in grants : g.is_active /\ ~is_expired(g, t)}

\* the grants as an interleaved cleanup_expired_grants would have left them
C28_Swept == cleanup_expired_grants(access_grants, now)

C28_Times == now..(MaxTime + 1)

\* C28: cleanup_expired_grants is not needed for correctness.  A sweep
\* deactivates exactly the active grants whose expires_at is in the past and
\* returns their number; at every later time check_authorization and get_grant
\* answer from the swept rows as from the unswept ones; every write to the
\* grants (create_grant, revoke_grant, the cascade of revoke_key, the
\* deactivation by a read path) leaves the same valid grants behind whether
\* it starts from the swept or the unswept rows; and every proxy_call is
\* accepted or denied by the valid grants alone.
C28_SweepNotNeeded ==
    /\ [](\A t \in C28_Times :
            /\ C28_Valid(C28_Swept, t) = C28_Valid(access_grants, t)
            /\ \A id \in 1..MaxGrants :
                 C28_Valid(deactivate_grant(C28_Swept, id), t)
                   = C28_Valid(deactivate_grant(access_grants, id), t)
            /\ \A k \in KeyIds, o \in Agents :
                 C28_Valid(revoke_grants_for_key(C28_Swept, k, o), t)
                   = C28_Valid(revoke_grants_for_key(access_grants, k, o), t)
            /\ \A k \in KeyIds, c \in Grantees, m \in 1..MaxLimit, e \in Expiries :
                 LET new == create_new_grant(next_grant_id, k, c, m, now + e,
                                             "coral_a")
                 IN  C28_Valid(InsertOrReplaceGrant(C28_Swept, new), t)
                       = C28_Valid(InsertOrReplaceGrant(access_grants, new), t))
    /\ [][/\ ret'.op = "cleanup_expired_grants"
              => /\ \A g \in access_grants :
                      IF g.is_active /\ g.expires_at < now
                      THEN [g EXCEPT !.is_active = FALSE] \in access_grants'
                           /\ g \notin access_grants'
                      ELSE g \in access_grants'
                 /\ Cardinality(access_grants') = Cardinality(access_grants)
                 /\ ret'.id = Cardinality({g \in access_grants :
                                             g.is_active /\ g.expires_at < now})
                 /\ \A t \in C28_Times :
                      C28_Valid(access_grants', t) = C28_Valid(access_grants, t)
          /\ \A p \in Procs :
               /\ (inv[p].pc = "idle" /\ inv'[p].pc = "get_grant")
                    => \E g \in C28_Valid(C28_Swept, now) :
                          g.key_id = inv'[p].key_id /\ g.caller_id = inv'[p].caller_id
               /\ (inv[p].pc = "get_grant" /\ inv'[p].pc = "in_flight")
                    => \E g \in C28_Valid(C28_Swept, now) :
                          g.key_id = inv[p].key_id /\ g.caller_id = inv[p].caller_id
               /\ (inv[p].pc = "idle" /\ inv'[p].pc = "auth_expired")
                    => ~\E g \in C28_Valid(access_grants, now) :
                          g.key_id = inv'[p].key_id /\ g.caller_id = inv'[p].caller_id
          /\ (ret'.op = "proxy_call" /\ ret'.result = "access_denied" /\ inv' = inv)
               => ~\E g \in C28_Valid(access_grants, now) :
                     g.key_id = ret'.key_id /\ g.caller_id = ret'.caller_id
         ]_vars

\* a sweep has deactivated an expired grant while another invocation was
\* between its checks
C28_Witness ==
    /\ ret.op = "cleanup_expired_grants"
    /\ ret.id >= 1
    /\ \E g \in access_grants : ~g.is_active /\ g.expires_at < now
    /\ \E p \in Procs : inv[p].pc # "idle"

\* ---- C29 -----------------------------------------------------------------
\* the invocations of the pair that have passed their rate check and have not
\* yet incremented the usage
C29_Window(key_id, caller_id) ==
    {p \in Procs : /\ inv[p].pc = "in_flight"
                   /\ inv[p].key_id = key_id
                   /\ inv[p].caller_id = caller_id}

\* the calls of today that are counted or may still be counted
C29_Pending(key_id, caller_id) ==
    UsageToday(usage_counters, key_id, caller_id)
      + Cardinality(C29_Window(key_id, caller_id))

\* C29: bounded overshoot under a fixed limit N.  An invocation passes its
\* rate check only while the call_count of today is below N, and no other
\* step raises the number of counted plus pending calls of the pair; so the
\* call_count exceeds N only by invocations that had passed their check
\* before the limit was reached, and it never exceeds N + P - 1, where P is
\* the largest number of invocations of the pair that were between rate
\* check and increment at once (here at most the number of workers).
C29_BoundedOvershoot ==
    /\ [](\A k \in KeyIds, c \in Grantees :
             C29_Pending(k, c) <= FixedLimit + Cardinality(Procs) - 1)
    /\ [][\A k \in KeyIds, c \in Grantees :
            /\ C29_Window(k, c)' \ C29_Window(k, c) # {}
                 => /\ UsageToday(usage_counters, k, c) <= FixedLimit - 1
                    /\ Cardinality(C29_Window(k, c)')
                         = Cardinality(C29_Window(k, c)) + 1
                    /\ usage_counters' = usage_counters
            /\ C29_Window(k, c)' \ C29_Window(k, c) = {}
                 => C29_Pending(k, c)' <= C29_Pending(k, c)
            /\ (UsageToday(usage_counters', k, c) > FixedLimit
                /\ usage_counters' # usage_counters)
                 => \E p \in C29_Window(k, c) :
                       /\ Ended(p, "in_flight")
                       /\ inv[p].used < FixedLimit
                       /\ Cardinality(C29_Window(k, c)) <= Cardinality(Procs)
         ]_vars

\* two invocations passed the rate check together and both were counted: the
\* call_count stands one above the limit
C29_Witness ==
    \E k \in KeyIds, c \in Grantees :
        /\ UsageToday(usage_counters, k, c) = FixedLimit + 1
        /\ ret.op = "proxy_call"
        /\ ret.result = "ok"
        /\ ret.caller_id = c

\* ---- C30 -----------------------------------------------------------------
\* an active, non-expired grant of the pair exists and the key is active
C30_Entitled(key_id, caller_id) ==
    /\ HasValidGrant(access_grants, key_id, caller_id, now)
    /\ retrievable(stored_keys, key_id)

\* C30: when an invocation hands its request to the outbound call, and when
\* it increments the usage, an active, non-expired grant of its pair exists
\* and the key is active, whatever revoke_grant, revoke_key or clock advance
\* came in between.
C30_EntitledAtHandOffAndIncrement ==
    [][\A p \in Procs :
          /\ (inv[p].pc = "get_grant" /\ inv'[p].pc = "in_flight")
               => C30_Entitled(inv[p].key_id, inv[p].caller_id)
          /\ (Ended(p, "in_flight") /\ usage_counters' # usage_counters)
               => C30_Entitled(inv[p].key_id, inv[p].caller_id)]_vars

\* ---- C31 -----------------------------------------------------------------
\* the key of this id is stored and inactive
C31_Revoked(key_id) == \E k \in stored_keys : k.key_id = key_id /\ ~k.is_active

\* C31: an inactive key never has an active grant; in particular a
\* grant_access for an inactive key is rejected and leaves the grants as
\* they are.  (revoke_key is one step here, so no revoke_key is ever in
\* progress between two states.)
C31_GrantOnRevokedKeyRejected ==
    [][(ret'.op = "grant_access" /\ C31_Revoked(ret'.key_id))
         => /\ ret'.result = "ValueError"
            /\ access_grants' = access_grants]_vars

\* ---- C32 -----------------------------------------------------------------
\* C32: revoke_grant(grant_id, owner_id) deactivates the grant, and only
\* that grant, when it is active and granted_by is the requester; for any
\* other requester, and for a missing or inactive grant, it raises
\* ValueError and leaves every grant as it is.  An inactive grant id never
\* becomes active again, so a second revoke_grant of the same grant fails.
C32_RevokeGrantOwnerOnly ==
    [][/\ \A grant_id \in 1..MaxGrants, owner_id \in Agents :
            (ret'.op = "revoke_grant" /\ RevokeGrant(grant_id, owner_id)) =>
               IF \E g \in access_grants : /\ g.grant_id = grant_id
                                           /\ g.is_active
                                           /\ g.granted_by = owner_id
               THEN /\ ret'.result = "True"
                    /\ access_grants' =
                         {IF g.grant_id = grant_id
                          THEN [g EXCEPT !.is_active = FALSE]
                          ELSE g : g \in access_grants}
               ELSE /\ ret'.result = "ValueError"
                    /\ access_grants' = access_grants
       /\ \A g \in access_grants : ~g.is_active =>
            \A h \in access_grants' : h.grant_id = g.grant_id => ~h.is_active
      ]_vars

\* a revoke_grant was refused while a grant is active
C32_Witness ==
    /\ ret.op = "revoke_grant"
    /\ ret.result = "ValueError"
    /\ \E g \in access_grants : g.is_active /\ g.granted_by # "coral_b"

\* ---- C33 -----------------------------------------------------------------
\* the grants of the key that are still active
C33_LeftActive(key_id) == {g \in access_grants : g.key_id = key_id /\ g.is_active}

C34_ReverseOrderOfWriting ==
    ret.op = "get_logs_for_key" =>
       \A i, j \in 1..Len(ret.logs) :
          i < j => SequenceOf(ret.logs[i].log_id) > SequenceOf(ret.logs[j].log_id)

\* ---- C35 -----------------------------------------------------------------
\* C35: a store with a valid api key is refused as a duplicate only when an
\* active key of the owner has the name: when the INSERT of a store runs and
\* no active key of the owner has the name (the owner revoked the key of
\* that name, say), the key is stored active under a new id and every row
\* that was there stays as it is.
C35_StoreAfterRevoke ==
    [][\A p \in Procs :
         (/\ inv[p].pc = "store_insert"
          /\ inv'[p].pc = "idle"
          /\ ~name_taken(stored_keys, inv[p].caller_id, inv[p].name))
         => /\ stored_keys \subseteq stored_keys'
            /\ \E k \in stored_keys' \ stored_keys :
                  /\ k.owner_id = inv[p].caller_id
                  /\ k.key_name = inv[p].name
                  /\ k.is_active
                  /\ \A h \in stored_keys : h.key_id # k.key_id
      ]_vars

\* ---- C36 -----------------------------------------------------------------
\* C36: the usage counters do not depend on the grants.  grant_access (a
\* replacement of the pair's grant included), revoke_grant, revoke_key,
\* cleanup_expired_grants and the deactivation of an expired grant found by
\* check_authorization or get_grant leave every counter row as it is; and a
\* call is handed to the outbound request only when the pair's count of the
\* day, whichever grant it was counted under, is below the max_calls of the
\* grant get_grant read.
C36_CountersIndependentOfGrants ==
    [][/\ (\/ access_grants' # access_grants
           \/ ret'.op \in {"grant_access", "revoke_grant", "revoke_key",
                           "cleanup_expired_grants"})
            => usage_counters' = usage_counters
       /\ \A p \in Procs :
            (inv[p].pc = "get_grant" /\ inv'[p].pc = "in_flight") =>
               \A g \in SelectActiveGrant(access_grants, inv[p].key_id,
                                          inv[p].caller_id) :
                  UsageToday(usage_counters, inv[p].key_id, inv[p].caller_id)
                     < g.max_calls
      ]_vars

\* the pair's grant was replaced on a day on which calls are counted
C36_Witness ==
    /\ ret.op = "grant_access"
    /\ ret.result = "ok"
    /\ ret.id > 1
    /\ \E g \in access_grants :
          /\ g.grant_id = ret.id
          /\ g.is_active
          /\ UsageToday(usage_counters, g.key_id, g.caller_id) > 0

\* ---- C37 -----------------------------------------------------------------
\* C37: an invocation to which the provider answered, with whatever status
\* code, raises the pair's call_count of the day by exactly one; an
\* invocation that ends in a denial or a raised error leaves every counter
\* as it is.
C37_CountedIffAnswered ==
    [][/\ (Finishes /\ ret'.status # 0)
            => UsageToday(usage_counters', ret'.key_id, ret'.caller_id)
                 = UsageToday(usage_counters, ret'.key_id, ret'.caller_id) + 1
       /\ (Finishes /\ ret'.result # "ok")
            => usage_counters' = usage_counters
      ]_vars

\* ---- C38 -----------------------------------------------------------------
\* the step applies the deactivation of the expired grant that
\* check_authorization or get_grant of invocation p read
C38_Deactivates(p) ==
    /\ inv[p].pc \in {"auth_expired", "grant_expired"}
    /\ inv'[p].pc = "idle"

\* C38: the deactivation of an expired grant touches only the grant that
\* was read: every other grant is left as it is, so a grant that replaced
\* the expired one in the meantime stays active and the pair is authorized
\* at the next check.
C38_DeactivationHitsOnlyTheExpiredGrant ==
    [][\A p \in Procs : C38_Deactivates(p) =>
          /\ \A g \in access_grants :
                g.grant_id # inv[p].grant_id => g \in access_grants'
          /\ HasValidGrant(access_grants, inv[p].key_id, inv[p].caller_id, now)
               => HasValidGrant(access_grants', inv[p].key_id, inv[p].caller_id,
                                now)
      ]_vars

\* an invocation was refused for the expired grant it had read, and the
\* grant that replaced it is active and not expired
C38_Witness ==
    /\ ret.op = "proxy_call"
    /\ ret.result \in {"access_denied", "no_grant"}
    /\ HasValidGrant(access_grants, ret.key_id, ret.caller_id, now)

\* ---- C39 -----------------------------------------------------------------
\* the next step of invocation q can be taken
C39_CanStep(q) ==
    /\ inv[q].pc = "auth_expired" => ENABLED AuthDeactivate(q)
    /\ inv[q].pc = "get_grant" => ENABLED GetGrant(q)
    /\ inv[q].pc = "grant_expired" => ENABLED GrantDeactivate(q)
    /\ inv[q].pc = "in_flight" =>
          /\ ENABLED ProxyFail(q)
          /\ \A st \in StatusCodes, sz \in PayloadSizes, rt \in ResponseTimes :
                ENABLED ProxyRespond(q, st, sz, rt, FALSE)

\* C39: every proxy_call invocation ends, with a result or an error, when
\* every store call returns and the outbound call is answered or times out;
\* and while an invocation is suspended in its outbound call, every step of
\* an invocation for another pair can be taken.
C39_Terminates ==
    /\ \A p \in Procs : (inv[p].pc # "idle") ~> (inv[p].pc = "idle")
    /\ [](\A p, q \in Procs :
            (p # q /\ inv[p].pc = "in_flight"
               /\ <<inv[q].key_id, inv[q].caller_id>>
                    # <<inv[p].key_id, inv[p].caller_id>>)
            => C39_CanStep(q))

\* an invocation got its answer and returned while the invocation of
\* another pair is suspended in its outbound call
C39_Witness ==
    /\ ret.op = "proxy_call"
    /\ ret.result = "ok"
    /\ \E p \in Procs : /\ inv[p].pc = "in_flight"
                        /\ inv[p].caller_id # ret.caller_id

====
